---- MODULE Spec2Model ----
(***************************************************************************)
(* The interview orchestration of backend/app/routes/interview_routes.py   *)
(* with the heuristic scorer of backend/app/utils.py, the LLM call wrapper *)
(* of backend/app/services/llm_service.py and the Interview row of         *)
(* backend/app/models.py.                                                  *)
(*                                                                         *)
(* JSON data is modelled by tagged records; the payload of a value sits in *)
(* a field named after its tag, so two values are only ever compared field *)
(* by field on payloads of one type.  Python's None is JNull.  A string is *)
(* either prose (JStr, which json.loads rejects) or a string whose content *)
(* is the serialisation of a JSON value, possibly wrapped (JText).         *)
(***************************************************************************)
EXTENDS Integers, Sequences, FiniteSets, TLC

\* ------------------------------------------------------------------ state
\* The handlers take the outcome of each LLM call as an input, whether the
\* provider or the cache of generate_with_llm served it; the cache itself is
\* followed call by call in SpecCache.
VARIABLES
    users,          \* users table: user -> resume_path ("" when none uploaded)
    interviews,     \* interviews table: id -> row, ids 1..Len(interviews)
    LLM_FORCE_EVAL, \* the configuration flag read at import
    last,           \* the response to the request handled last
    reqs,           \* the requests in flight (used by the overlapping handlers)
    _simple_cache   \* generate_with_llm._simple_cache, in insertion order

vars == <<users, interviews, LLM_FORCE_EVAL, last, reqs, _simple_cache>>

Min(a, b) == IF a <= b THEN a ELSE b
Max(a, b) == IF a >= b THEN a ELSE b

\* ------------------------------------------------------------------ JSON
JNull == [t |-> "null"]
JBool(b) == [t |-> "bool", bool |-> b]
JInt(n) == [t |-> "int", int |-> n]
\* a JSON number with a fractional part, held in tenths (72.9 is JFloat(729))
JFloat(tenths) == [t |-> "float", tenths |-> tenths]
JStr(s) == [t |-> "str", str |-> s]
\* wrap: "plain" (exactly the JSON), "fenced" (inside ``` fences),
\* "chatter" (prose before and after a {...} or [...] span)
JText(wrap, val) == [t |-> "text", wrap |-> wrap, val |-> val]
JList(l) == [t |-> "list", list |-> l]
JDict(d) == [t |-> "dict", dict |-> d]

IsDict(j) == j.t = "dict"
IsList(j) == j.t = "list"
IsStr(j) == j.t \in {"str", "text"}

\* Python truth value of a JSON value
Truthy(j) ==
    CASE j.t = "null" -> FALSE
      [] j.t = "bool" -> j.bool
      [] j.t = "int" -> j.int # 0
      [] j.t = "float" -> j.tenths # 0
      [] j.t = "str" -> j.str # ""
      [] j.t = "text" -> TRUE
      [] j.t = "list" -> j.list # <<>>
      [] j.t = "dict" -> DOMAIN j.dict # {}

\* x or y
PyOr(x, y) == IF Truthy(x) THEN x ELSE y

\* d.get(k, default) on the mapping d
DictGet(d, k, default) == IF k \in DOMAIN d THEN d[k] ELSE default

\* the string literals that hold a bracket: cutting a text at its first and
\* last bracket cuts into them
Bracketed(val) == val.t = "str" /\ val.str \in {"Why is arr[i] the same as *(arr + i)?"}

\* json.loads(text): the text is exactly the JSON
DirectParse(text) ==
    IF text.t = "text" /\ text.wrap = "plain" THEN text.val ELSE JNull

\* json.loads of the text without its fence markers
FenceParse(text) ==
    IF text.t = "text" /\ text.wrap \in {"plain", "fenced"} THEN text.val ELSE JNull

\* json.loads of the {...} or [...] span the regex finds: a number or a
\* string literal has no such span
SpanParse(text) ==
    IF text.t = "text" /\ text.val.t \in {"list", "dict"} THEN text.val ELSE JNull

\* json.loads of _clean_model_output(text): fences removed, then cut from
\* the first brace or bracket to the last one
CleanedParse(text) ==
    IF text.t = "text"
       /\ \/ text.val.t \in {"list", "dict"}
          \/ text.wrap \in {"plain", "fenced"} /\ ~Bracketed(text.val)
    THEN text.val ELSE JNull

\* ------------------------------------------------- services/llm_service.py
\* _try_parse_json(text): direct json.loads, then the cleaned text (fences
\* removed, cut to the first brace/bracket .. last brace/bracket), then the
\* regex span.  Prose and the empty string give None.
_try_parse_json(text) ==
    IF DirectParse(text) # JNull THEN DirectParse(text)
    ELSE IF CleanedParse(text) # JNull THEN CleanedParse(text)
    ELSE SpanParse(text)

\* What the remote call can do.  kind "content": the provider answered with
\* the text raw; "nokey": OPENROUTER_API_KEY is not set; "timeout",
\* "connection": requests raised; "http": a status >= 400; "format": a body
\* with neither choices nor response; "error": any other exception.
LLMFailure == [kind |-> "error"]
LLMContent(raw) == [kind |-> "content", raw |-> raw]

LLMFailures ==
    {LLMFailure, [kind |-> "nokey"], [kind |-> "timeout"], [kind |-> "connection"],
     [kind |-> "http", status |-> 400], [kind |-> "http", status |-> 503],
     [kind |-> "format"]}

\* _call_openrouter_raw: the content text, or the LLMError it raises
_call_openrouter_raw(reply) ==
    CASE reply.kind = "content" -> [raised |-> FALSE, raw |-> reply.raw, error |-> ""]
      [] reply.kind = "nokey" ->
            [raised |-> TRUE, raw |-> JStr(""),
             error |-> "OPENROUTER_API_KEY not configured in environment"]
      [] reply.kind = "timeout" ->
            [raised |-> TRUE, raw |-> JStr(""), error |-> "Timeout hitting OpenRouter"]
      [] reply.kind = "connection" ->
            [raised |-> TRUE, raw |-> JStr(""),
             error |-> "Connection error reaching OpenRouter"]
      [] reply.kind = "http" ->
            [raised |-> TRUE, raw |-> JStr(""), error |-> "HTTP error from OpenRouter"]
      [] reply.kind = "format" ->
            [raised |-> TRUE, raw |-> JStr(""), error |-> "Unexpected OpenRouter format"]
      [] OTHER ->
            [raised |-> TRUE, raw |-> JStr(""), error |-> "Error contacting OpenRouter"]

\* lines 163-175: the result built from the call, both except clauses
Generated(called) ==
    IF called.raised
    THEN [ok |-> FALSE, raw |-> JStr(""), json |-> JNull, error |-> called.error]
    ELSE [ok |-> TRUE, raw |-> called.raw, json |-> _try_parse_json(called.raw),
          error |-> ""]

\* the wrapper that reports a failed call as an empty answer, against which
\* the reporting of failures is tried
generate_with_llm_swallowing(reply) ==
    [ok |-> TRUE, raw |-> _call_openrouter_raw(reply).raw,
     json |-> _try_parse_json(_call_openrouter_raw(reply).raw), error |-> ""]

\* generate_with_llm: never raises; {"ok","raw","json","error"}
generate_with_llm(reply) == Generated(_call_openrouter_raw(reply))

\* ---------------------------------------------- routes/interview_routes.py
\* _try_parse_json_string(s): None for the empty string; json.loads of the
\* stripped text, of the text without fence markers, of the regex span.
\* the parser that stops after the exact parse, against which the order of
\* the three steps is tried
_try_parse_json_direct(s) == DirectParse(s)

_try_parse_json_string(s) ==
    IF DirectParse(s) # JNull THEN DirectParse(s)
    ELSE IF FenceParse(s) # JNull THEN FenceParse(s)
    ELSE SpanParse(s)

TerminalKeys == {"core_skills", "projects", "questions", "follow_up"}

\* x if x is not None, else y
FirstNonNull(x, y) == IF x # JNull THEN x ELSE y

\* inner = _try_parse_json_string(content) for a non-blank string content;
\* None for anything else (the routes call _unwrap_llm_resp inside try, so a
\* content that is no string ends the call with no value as well)
ParseIfStr(content) ==
    IF IsStr(content) /\ Truthy(content) THEN _try_parse_json_string(content) ELSE JNull

\* msg.get("content") or msg.get("text") or msg.get("response")
EnvelopeContent(msg) ==
    PyOr(PyOr(DictGet(msg.dict, "content", JNull), DictGet(msg.dict, "text", JNull)),
         DictGet(msg.dict, "response", JNull))

\* lines 268-274: a nested message / result / output mapping
ViaMessage(msg) == IF IsDict(msg) THEN ParseIfStr(EnvelopeContent(msg)) ELSE JNull

\* lines 276-279: a "response" string
ViaResponse(d) ==
    IF "response" \in DOMAIN d /\ IsStr(d["response"])
    THEN _try_parse_json_string(d["response"]) ELSE JNull

\* lines 285-290: choices[0]["message"]
ChoiceMessage(first) ==
    IF "message" \in DOMAIN first.dict /\ IsDict(first.dict["message"])
    THEN ParseIfStr(PyOr(DictGet(first.dict["message"].dict, "content", JNull),
                         DictGet(first.dict["message"].dict, "text", JNull)))
    ELSE JNull

\* lines 291-294: choices[0]["text"]
ChoiceText(first) ==
    IF "text" \in DOMAIN first.dict /\ IsStr(first.dict["text"])
    THEN _try_parse_json_string(first.dict["text"]) ELSE JNull

\* lines 281-294: only the first element of choices is looked at
ViaChoices(choices) ==
    IF IsList(choices) /\ choices.list # <<>> /\ IsDict(choices.list[1])
    THEN FirstNonNull(ChoiceMessage(choices.list[1]), ChoiceText(choices.list[1]))
    ELSE JNull

\* lines 268-294 on a parsed mapping without terminal keys; None when no
\* step yields a value
UnwrapEnvelope(d) ==
    FirstNonNull(
        ViaMessage(PyOr(PyOr(DictGet(d, "message", JNull), DictGet(d, "result", JNull)),
                        DictGet(d, "output", JNull))),
        FirstNonNull(ViaResponse(d), ViaChoices(DictGet(d, "choices", JNull))))

\* lines 296-306: what is returned once the envelope steps gave fromEnvelope
UnwrapRest(parsed, raw, fromEnvelope) ==
    IF fromEnvelope # JNull THEN fromEnvelope
    ELSE IF IsList(parsed) \/ IsDict(parsed) THEN parsed
    ELSE IF Truthy(raw) THEN _try_parse_json_string(raw)
    ELSE JNull

UnwrapParsed(parsed, raw) ==
    IF IsDict(parsed) /\ DOMAIN parsed.dict \cap TerminalKeys # {} THEN parsed
    ELSE UnwrapRest(parsed, raw,
                    IF IsDict(parsed) THEN UnwrapEnvelope(parsed.dict) ELSE JNull)

_unwrap_llm_resp(llm_resp) == UnwrapParsed(llm_resp.json, llm_resp.raw)

\* int(x): the integer, or the exception (ok = FALSE)
IntOf(x) ==
    CASE x.t = "int" -> [ok |-> TRUE, v |-> x.int]
      [] x.t = "bool" -> [ok |-> TRUE, v |-> IF x.bool THEN 1 ELSE 0]
      [] x.t = "float" ->
            [ok |-> TRUE,
             v |-> IF x.tenths >= 0 THEN x.tenths \div 10 ELSE -((-x.tenths) \div 10)]
      [] x.t = "text" /\ x.wrap = "plain" /\ x.val.t = "int" ->
            [ok |-> TRUE, v |-> x.val.int]
      [] OTHER -> [ok |-> FALSE, v |-> 0]

\* the coercion without the clamp, against which the range check is tried
ClampScoreOpen(r) == IF r.ok THEN r.v ELSE 0

\* max(0, min(100, .)) of the integer, 0 for the exception
ClampScore(r) == IF r.ok THEN Max(0, Min(100, r.v)) ELSE 0

\* _normalize_int_safe(x): max(0, min(100, int(x))), 0 when int(x) raises
_normalize_int_safe(x) == ClampScore(IntOf(x))

\* ------------------------------------------------------------ utils.py
\* The texts a candidate submits.  score_answer_text reads a text only
\* through its lexical measurements: tokens (word_count), distinct tokens,
\* non-empty sentences, filler-word occurrences, TECH_TERMS present, and,
\* against the question's expected keywords (at most 12), how many match
\* and the difflib similarity in percent.  Lex gives them per text.
Texts == {"", "weak", "strong", "rambling", "middling"}

Lex(text) ==
    CASE text = "" ->
            [word_count |-> 0, unique_words |-> 0, sentence_count |-> 0,
             filler_count |-> 0, tech_hits |-> 0, kw_total |-> 8, kw_hits |-> 0,
             similarity |-> 0]
      [] text = "weak" ->
            [word_count |-> 6, unique_words |-> 3, sentence_count |-> 1,
             filler_count |-> 1, tech_hits |-> 0, kw_total |-> 8, kw_hits |-> 1,
             similarity |-> 12]
      [] text = "strong" ->
            [word_count |-> 60, unique_words |-> 45, sentence_count |-> 4,
             filler_count |-> 0, tech_hits |-> 6, kw_total |-> 8, kw_hits |-> 7,
             similarity |-> 35]
      [] text = "rambling" ->
            [word_count |-> 40, unique_words |-> 10, sentence_count |-> 1,
             filler_count |-> 9, tech_hits |-> 1, kw_total |-> 8, kw_hits |-> 2,
             similarity |-> 5]
      [] text = "middling" ->
            [word_count |-> 40, unique_words |-> 20, sentence_count |-> 3,
             filler_count |-> 0, tech_hits |-> 4, kw_total |-> 8, kw_hits |-> 4,
             similarity |-> 30]

\* int(round(x)) for x = num/10, num >= 0: Python rounds halves to even
RoundTenths(num) ==
    LET q == num \div 10
        r == num % 10
    IN IF r < 5 THEN q
       ELSE IF r > 5 THEN q + 1
       ELSE IF q % 2 = 0 THEN q ELSE q + 1

\* depth_score = min(100, int(kw_ratio*60 + tech_hits*5 + min(1, lexdiv)*20))
DepthScore(m) ==
    LET kwPart == IF m.kw_total = 0 THEN 0 ELSE m.kw_hits * 60 * Max(1, m.word_count)
        kwDen == Max(1, m.kw_total)
        wc == Max(1, m.word_count)
        lexPart == Min(m.unique_words, m.word_count) * 20 * kwDen
    IN Min(100, (kwPart + m.tech_hits * 5 * kwDen * wc + lexPart) \div (kwDen * wc))

\* technical_score = min(100, int(kw_ratio*70 + tech_hits*7 + depth_score*0.1))
TechnicalScore(m) ==
    LET kwDen == Max(1, m.kw_total)
        kwPart == IF m.kw_total = 0 THEN 0 ELSE m.kw_hits * 700
    IN Min(100, (kwPart + m.tech_hits * 70 * kwDen + DepthScore(m) * kwDen)
                   \div (10 * kwDen))

\* wpm = int(word_count / duration * 60) when duration > 0, else None (0 here:
\* the code tests "if wpm", which treats 0 and None alike)
Wpm(m, duration) ==
    IF duration > 0 THEN (m.word_count * 60) \div duration ELSE 0

\* comm_score: base from lexical diversity and sentence count, minus the
\* filler penalty, plus or minus 8 for the speaking rate
CommScore(m, duration) ==
    LET wc == Max(1, m.word_count)
        base == Min(100, (m.unique_words * 180 + Min(3, m.sentence_count) * 40 * wc)
                            \div (3 * wc))
        penalty == Min(30, m.filler_count * 4)
        score == Max(0, base - penalty)
        wpm == Wpm(m, duration)
    IN IF wpm # 0 /\ 100 <= wpm /\ wpm <= 200 THEN Min(100, score + 8)
       ELSE IF wpm > 240 THEN Max(0, score - 8)
       ELSE score

\* resume_match = int(min(100, res_ratio*100)); without resume keywords the
\* ratio is the similarity to the joined expected keywords
ResumeMatch(m) == IF m.kw_total = 0 THEN 0 ELSE Min(100, m.similarity)

\* the strengths with the depth threshold met at 60 already, against which
\* the exactness of the thresholds is tried
StrengthsFrom60(technical, depth, comm) ==
    (IF technical > 65 THEN <<JStr("Good technical coverage")>> ELSE <<>>)
    \o (IF depth >= 60 THEN <<JStr("Shows conceptual depth")>> ELSE <<>>)
    \o (IF comm > 60 THEN <<JStr("Clear communicator")>> ELSE <<>>)

Strengths(technical, depth, comm) ==
    (IF technical > 65 THEN <<JStr("Good technical coverage")>> ELSE <<>>)
    \o (IF depth > 60 THEN <<JStr("Shows conceptual depth")>> ELSE <<>>)
    \o (IF comm > 60 THEN <<JStr("Clear communicator")>> ELSE <<>>)

Weaknesses(technical, resume_match, comm) ==
    (IF technical < 40
     THEN <<JStr("Weak technical details - expand on steps and algorithms")>> ELSE <<>>)
    \o (IF resume_match < 30
        THEN <<JStr("Answer doesn't reference resume or project specifics")>> ELSE <<>>)
    \o (IF comm < 30 THEN <<JStr("Clarity and pacing issues")>> ELSE <<>>)

Tips(technical, resume_match, comm) ==
    (IF technical < 40
     THEN <<JStr("Describe the design choices and algorithmic complexity (Big-O).")>>
     ELSE <<>>)
    \o (IF resume_match < 30
        THEN <<JStr("Link your answer to specific project tasks, numbers, or modules from your resume.")>>
        ELSE <<>>)
    \o (IF comm < 30
        THEN <<JStr("Speak slower, organize answers: Problem - Approach - Result.")>>
        ELSE <<>>)

\* transcript_meta.get("duration", 0) or 0, in whole seconds
MetaDuration(transcript_meta) ==
    IF IsDict(transcript_meta) /\ Truthy(transcript_meta)
       /\ "duration" \in DOMAIN transcript_meta.dict
       /\ transcript_meta.dict["duration"].t = "int"
    THEN transcript_meta.dict["duration"].int ELSE 0

\* lines 230-252: the mapping returned
ScoreRecord(m, duration, depth, technical, comm, resume_match) ==
    [overall_score |->
        JInt(Max(0, Min(100, RoundTenths(6 * technical + 3 * comm + resume_match)))),
     technical |-> JInt(technical),
     communication |-> JInt(comm),
     depth |-> JInt(depth),
     resume_match |-> JInt(resume_match),
     resume_bonus |-> JInt(Min(10, resume_match \div 10)),
     strengths |-> JList(Strengths(technical, depth, comm)),
     weaknesses |-> JList(Weaknesses(technical, resume_match, comm)),
     tips |-> JList(Tips(technical, resume_match, comm)),
     speech_meta |-> JDict([duration |-> JInt(duration),
                            wpm |-> JInt(Wpm(m, duration)),
                            filler_count |-> JInt(m.filler_count),
                            word_count |-> JInt(m.word_count),
                            sentence_count |-> JInt(m.sentence_count)]),
     meta |-> JDict([tech_hits |-> JInt(m.tech_hits)])]

ScoreMeasured(m, duration) ==
    ScoreRecord(m, duration, DepthScore(m), TechnicalScore(m), CommScore(m, duration),
                ResumeMatch(m))

\* a scorer that keeps the speaking time of the call before when called
\* twice in a row, against which the independence from earlier calls is tried
score_answer_text_remembering(answer, transcript_meta) ==
    ScoreMeasured(Lex(answer),
                  MetaDuration(transcript_meta)
                  + (IF last.op = "submit_answer" THEN 1 ELSE 0))

\* score_answer_text(answer, expected_keywords, transcript_meta)
\* (resume_keywords is never passed by the routes)
score_answer_text(answer, transcript_meta) ==
    ScoreMeasured(Lex(answer), MetaDuration(transcript_meta))

\* ---------------------------------------------- routes/interview_routes.py
\* A question is a string; the model names it by how it was built:
\*   kind "bank"     id = position in COMBINED_CS_BANK
\*   kind "common"   id = position among utils.COMMON_QUESTIONS[topic][:2]
\*   kind "project"  the "Tell me about this project: ..." question of project s
\*   kind "design"   the fixed "For that project, how did you design ..." question
\*   kind "skill", "keyword"   the question built from skill or keyword s
\*   kind "llm"      a string s that came from the LLM
\*   kind "fu_design"  the synthesized follow-up naming the noun s
\*   kind "fu_testing" the fixed testing-strategy follow-up
Q(kind, id, s) == [kind |-> kind, id |-> id, s |-> s]

\* positions in COMBINED_CS_BANK whose text matches the key-noun pattern,
\* with the matched text (the first match, in the case it has in the text)
BankNoun(id) ==
    CASE id \in {24, 26, 54, 100} -> "model"
      [] id = 25 -> "API"
      [] id \in {32, 33, 36, 40, 52, 57} -> "index"
      [] id \in {38, 45} -> "schema"
      [] id \in {41, 51, 59} -> "database"
      [] id = 86 -> "algorithm"
      [] id = 89 -> "service"
      [] OTHER -> ""

\* the strings the LLM and the resume supply, with the key noun each holds
NounOfString(s) ==
    CASE s = "How did you index the orders table?" -> "index"
      [] s = "Which service owns the cache?" -> "service"
      [] s = "payments api" -> "api"
      [] OTHER -> ""

\* re.search(r"(project|module|...|index)", str(qtext), re.I): group(1) or ""
KeyNoun(q) ==
    CASE q.kind = "bank" -> BankNoun(q.id)
      [] q.kind \in {"project", "design"} -> "project"
      [] q.kind = "fu_design" -> q.s
      [] q.kind \in {"skill", "keyword", "llm"} -> NounOfString(q.s)
      [] OTHER -> ""

\* str(x) of a JSON value, as the name of the resulting string
PyStr(j) ==
    CASE j.t = "str" -> j.str
      [] j.t = "int" -> "<int>"
      [] j.t = "bool" -> "<bool>"
      [] j.t = "float" -> "<float>"
      [] j.t = "text" -> "<json text>"
      [] j.t = "list" -> "<list>"
      [] j.t = "dict" -> "<dict>"
      [] OTHER -> "None"

\* models.Interview: each column holds NULL or the json.dumps of a value;
\* set_x stores the serialisation, get_x reads it back ("[]" / "{}" for NULL).
\* Serialising and parsing a JSON value gives the value back.
NullColumn == [null |-> TRUE]
Dumps(v) == [json |-> v]
Loads(col, default) == IF "json" \in DOMAIN col THEN col.json ELSE default
EmptyDict == [k \in {} |-> JNull]
set_questions(row, questions) == [row EXCEPT !.questions_json = Dumps(questions)]
get_questions(row) == Loads(row.questions_json, <<>>)
set_answers(row, answers) == [row EXCEPT !.answers_json = Dumps(answers)]
get_answers(row) == Loads(row.answers_json, <<>>)
set_analysis(row, obj) == [row EXCEPT !.analysis_json = Dumps(obj)]
get_analysis(row) == Loads(row.analysis_json, EmptyDict)

\* answer_text: the transcript's text when transcript_meta carries one
AnswerText(payload) ==
    LET tm == payload.transcript_meta
    IN IF Truthy(tm) /\ IsDict(tm) /\ Truthy(DictGet(tm.dict, "text", JNull))
       THEN DictGet(tm.dict, "text", JNull).str
       ELSE payload.answer

DictOrNone(x) == IF IsDict(x) THEN x ELSE JNull

\* lines 469-482: the LLM evaluation, None unless it unwraps to a mapping
LLMScore(force_eval, evalReply) ==
    IF force_eval THEN DictOrNone(_unwrap_llm_resp(generate_with_llm(evalReply)))
    ELSE JNull

\* lines 488-494: the keys the fallback makes sure of
HeuristicDefaults(h) ==
    [k \in DOMAIN h \cup {"overall_score", "technical", "communication", "depth",
                          "resume_match"} |->
        IF k \in DOMAIN h THEN h[k]
        ELSE IF k = "overall_score" THEN DictGet(h, "score", JInt(0))
        ELSE IF k = "resume_match" THEN DictGet(h, "resume_bonus", JInt(0))
        ELSE JInt(0)]

\* lines 484-501: the heuristic fallback
HeuristicScore(answer_text, transcript_meta) ==
    HeuristicDefaults(score_answer_text(answer_text, transcript_meta))

NumericFields == {"technical", "communication", "depth", "resume_match"}

\* lines 503-508: the five numeric fields coerced and clamped
NormalizeNumbers(d) ==
    [k \in DOMAIN d \cup NumericFields \cup {"overall_score"} |->
        IF k = "overall_score"
        THEN JInt(_normalize_int_safe(
                 DictGet(d, "overall_score", DictGet(d, "score", JInt(0)))))
        ELSE IF k \in NumericFields
        THEN JInt(_normalize_int_safe(DictGet(d, k, JInt(0))))
        ELSE d[k]]

\* lines 509-511: setdefault of the three lists
NormalizeLists(d) ==
    [k \in DOMAIN d \cup {"strengths", "weaknesses", "tips"} |->
        IF k \in DOMAIN d THEN d[k] ELSE JList(<<>>)]

\* lines 503-511
NormalizeScore(score_obj) == NormalizeLists(NormalizeNumbers(score_obj))

\* line 484: "if not score_obj" sends None and the empty mapping to the fallback
ChooseScore(llm, answer_text, transcript_meta) ==
    IF Truthy(llm) THEN llm.dict ELSE HeuristicScore(answer_text, transcript_meta)

\* lines 469-511: the score stored with the answer
ScoreObj(force_eval, evalReply, answer_text, transcript_meta) ==
    NormalizeScore(ChooseScore(LLMScore(force_eval, evalReply), answer_text,
                               transcript_meta))

\* the record of a question index written over the earlier record of that
\* index, against which the append-only check is tried
AppendAnswerUpsert(answers, payload, qtext, score_obj) ==
    IF \E a \in DOMAIN answers : answers[a].question_index = payload.question_index
    THEN [a \in DOMAIN answers |->
            IF answers[a].question_index = payload.question_index
            THEN [question_index |-> payload.question_index, question |-> qtext,
                  answer |-> AnswerText(payload), score |-> score_obj,
                  transcript_meta |-> payload.transcript_meta]
            ELSE answers[a]]
    ELSE Append(answers,
                [question_index |-> payload.question_index, question |-> qtext,
                 answer |-> AnswerText(payload), score |-> score_obj,
                 transcript_meta |-> payload.transcript_meta])

\* lines 513-522: the answer list with the new record appended
AppendAnswer(answers, payload, qtext, score_obj) ==
    Append(answers,
           [question_index |-> payload.question_index,
            question |-> qtext,
            answer |-> AnswerText(payload),
            score |-> score_obj,
            transcript_meta |-> payload.transcript_meta])

\* lines 534-541: the follow-up the LLM gave, <<>> when none
LLMFollowUp(fu_unwrapped) ==
    IF IsDict(fu_unwrapped) /\ "follow_up" \in DOMAIN fu_unwrapped.dict
    THEN IF Truthy(fu_unwrapped.dict["follow_up"])
         THEN <<Q("llm", 0, PyStr(fu_unwrapped.dict["follow_up"]))>>
         ELSE <<>>
    ELSE IF IsStr(fu_unwrapped) THEN <<Q("llm", 0, PyStr(fu_unwrapped))>>
    ELSE <<>>

\* lines 545-551: the two synthesized follow-ups
Synthesized(key_noun) ==
    <<Q("fu_design", 0, IF key_noun # "" THEN key_noun ELSE "component"),
      Q("fu_testing", 0, "")>>

\* the step that synthesizes nothing, against which the growth of the
\* question list with every answer is tried
FollowUpsIfAny(fromLLM, qtext) == fromLLM

FollowUpsOr(fromLLM, qtext) ==
    IF fromLLM # <<>> THEN fromLLM ELSE Synthesized(KeyNoun(qtext))

\* lines 526-551: one LLM follow-up, else the two synthesized ones
FollowUps(qtext, fuReply) ==
    FollowUpsOr(LLMFollowUp(_unwrap_llm_resp(generate_with_llm(fuReply))), qtext)

\* qs[pos] = x in place of the insertion, against which the growth check is
\* tried
ListAssign(qs, pos, x) ==
    IF pos >= Len(qs) THEN Append(qs, x) ELSE [qs EXCEPT ![pos + 1] = x]

\* list.insert(pos, x) for 0 <= pos
ListInsert(qs, pos, x) ==
    IF pos >= Len(qs) THEN Append(qs, x)
    ELSE SubSeq(qs, 1, pos) \o <<x>> \o SubSeq(qs, pos + 1, Len(qs))

\* the turn without its else (insert, then append as well), against which
\* the count of insertions is tried
InsertOneAndAppend(qs, insert_at, i, fu) ==
    IF insert_at + i <= Len(qs)
    THEN Append(SubSeq(qs, 1, insert_at + i) \o <<fu>>
                \o SubSeq(qs, insert_at + i + 1, Len(qs)), fu)
    ELSE Append(qs, fu)

\* the turn that inserts at insert_at whatever i is, against which the order
\* of the follow-ups is tried
InsertOneAtStart(qs, insert_at, i, fu) ==
    IF insert_at <= Len(qs)
    THEN SubSeq(qs, 1, insert_at) \o <<fu>> \o SubSeq(qs, insert_at + 1, Len(qs))
    ELSE Append(qs, fu)

\* one turn of the loop of lines 557-561
InsertOne(qs, insert_at, i, fu) ==
    IF insert_at + i <= Len(qs) THEN ListInsert(qs, insert_at + i, fu)
    ELSE Append(qs, fu)

\* the turns i = 0 and i = 1 of the loop over follow_ups[:2]
InsertSecond(qs, insert_at, fus) ==
    IF Len(fus) >= 2 THEN InsertOne(qs, insert_at, 1, fus[2]) ELSE qs
InsertFirst(qs, insert_at, fus) ==
    IF Len(fus) >= 1 THEN InsertOne(qs, insert_at, 0, fus[1]) ELSE qs

InsertBoth(qs, insert_at, fus) ==
    InsertSecond(InsertFirst(qs, insert_at, fus), insert_at, fus)

\* lines 553-561: at most two follow-ups spliced in after the answered index
InsertFollowUps(qs, insert_at, follow_ups) ==
    InsertBoth(qs, insert_at, SubSeq(follow_ups, 1, Min(2, Len(follow_ups))))

\* ------------------------------------------------ finish_interview, 584-678
RECURSIVE SumSeq(_)
SumSeq(xs) == IF xs = <<>> THEN 0 ELSE Head(xs) + SumSeq(Tail(xs))

\* int(a / b) for b > 0: truncation toward zero
TruncDiv(a, b) == IF a >= 0 THEN a \div b ELSE -((-a) \div b)

\* the characters of the strings that stand where a list was expected
CharsOf(str) ==
    CASE str = "ok" -> <<JStr("o"), JStr("k")>>
      [] str = "good" -> <<JStr("g"), JStr("o"), JStr("o"), JStr("d")>>
      [] OTHER -> <<>>

Hashable(j) == j.t \notin {"list", "dict"}

\* the keys of a mapping, as the strings a loop over it visits
RECURSIVE KeysOf(_)
KeysOf(names) ==
    IF names = {} THEN <<>>
    ELSE <<JStr(CHOOSE k \in names : TRUE)>> \o KeysOf(names \ {CHOOSE k \in names : TRUE})

\* for x in (v or []): the items visited, or the TypeError (a number is not
\* iterable; a list or mapping item cannot be a dictionary key); a loop
\* over a mapping visits its keys
IterItems(v) ==
    IF ~Truthy(v) THEN [ok |-> TRUE, items |-> <<>>]
    ELSE CASE v.t = "list" ->
                [ok |-> \A i \in DOMAIN v.list : Hashable(v.list[i]), items |-> v.list]
           [] v.t = "str" -> [ok |-> TRUE, items |-> CharsOf(v.str)]
           [] v.t = "dict" -> [ok |-> TRUE, items |-> KeysOf(DOMAIN v.dict)]
           [] OTHER -> [ok |-> FALSE, items |-> <<>>]

\* acc[key] = acc.get(key, 0) + 1 on a dict kept in insertion order
AddCount(acc, key) ==
    IF \E i \in DOMAIN acc : acc[i].key = key
    THEN [i \in DOMAIN acc |->
            IF acc[i].key = key THEN [key |-> key, n |-> acc[i].n + 1] ELSE acc[i]]
    ELSE Append(acc, [key |-> key, n |-> 1])

RECURSIVE AddCounts(_, _)
AddCounts(acc, items) ==
    IF items = <<>> THEN acc ELSE AddCounts(AddCount(acc, Head(items)), Tail(items))

\* the frequency table of one of strengths / weaknesses / tips over all answers
RECURSIVE Tally(_, _, _)
Tally(acc, answers, field) ==
    IF answers = <<>> THEN acc
    ELSE Tally(AddCounts(acc, IterItems(DictGet(Head(answers).score, field, JNull)).items),
               Tail(answers), field)

\* x placed after the entries of the sorted rest whose count is >= its own
SortInsert(rest, x) ==
    SubSeq(rest, 1, Cardinality({i \in DOMAIN rest : rest[i].n >= x.n}))
    \o <<x>>
    \o SubSeq(rest, Cardinality({i \in DOMAIN rest : rest[i].n >= x.n}) + 1, Len(rest))

\* sorted(acc.items(), key=lambda x: -x[1]): stable, descending by count
RECURSIVE SortedByCount(_)
SortedByCount(acc) ==
    IF acc = <<>> THEN <<>>
    ELSE SortInsert(SortedByCount(SubSeq(acc, 1, Len(acc) - 1)), acc[Len(acc)])

Keys(pairs) == [i \in DOMAIN pairs |-> pairs[i].key]

\* the list kept whole, against which the limits of the analysis are tried
TopUncut(pairs, n) == pairs
Top(pairs, n) == SubSeq(pairs, 1, Min(n, Len(pairs)))

\* overall = s.get("overall_score") or s.get("score") or 0
OverallOf(score) ==
    PyOr(PyOr(DictGet(score, "overall_score", JNull), DictGet(score, "score", JNull)),
         JInt(0))

\* the loop of lines 594-609 raises when an int() or an iteration fails
AggregationRaises(answers) ==
    \E i \in DOMAIN answers :
        LET sc == answers[i].score
        IN \/ ~IntOf(OverallOf(sc)).ok
           \/ \E f \in {"technical", "communication", "depth", "resume_match"} :
                 ~IntOf(DictGet(sc, f, JInt(0))).ok
           \/ \E f \in {"strengths", "weaknesses", "tips"} :
                 ~IterItems(DictGet(sc, f, JNull)).ok

FieldAvg(answers, field) ==
    TruncDiv(SumSeq([i \in DOMAIN answers |->
                        IntOf(DictGet(answers[i].score, field, JInt(0))).v]),
             Max(1, Len(answers)))

\* lines 625-643: one message per category, by the fixed thresholds
ImprovementTips(technical_avg, communication_avg, depth_avg, resume_match_avg) ==
    << IF technical_avg < 60 THEN "Strengthen core technical knowledge"
                             ELSE "Technical fundamentals look solid",
       IF communication_avg < 60 THEN "Work on structured answers"
                                 ELSE "Communication is good",
       IF depth_avg < 50 THEN "Provide deeper design and edge-case reasoning"
                         ELSE "Depth is acceptable",
       IF resume_match_avg < 50 THEN "Tie answers explicitly to projects on your resume"
                                ELSE "Good resume alignment" >>

study_plan ==
    << "Week 1 - Data Structures & Algorithms", "Week 2 - System Design Basics",
       "Week 3 - OOP & Code Quality", "Week 4 - OS & Networks fundamentals" >>

\* lines 658-673: the analysis mapping
AnalysisRecord(answers, avg_score, technical_avg, communication_avg, depth_avg, resume_match_avg, top_strengths, top_weaknesses, top_tips) ==
    [overall_score |-> avg_score,
     by_category |-> [technical_avg |-> technical_avg,
                      communication_avg |-> communication_avg,
                      depth_avg |-> depth_avg,
                      resume_match_avg |-> resume_match_avg],
     top_strengths |-> Keys(top_strengths),
     top_weaknesses |-> Keys(top_weaknesses),
     aggregated_tips |-> Keys(top_tips),
     improvement_tips |-> ImprovementTips(technical_avg, communication_avg,
                                          depth_avg, resume_match_avg),
     \* f"{wk} - practice focused Q&A ...": named by its weakness
     actionable_from_weaknesses |-> Keys(Top(top_weaknesses, 5)),
     suggested_4_week_plan |-> study_plan,
     detailed_per_answer |-> answers]

\* avg_score = int(sum(total_scores) / len(total_scores))
AvgScore(answers) ==
    TruncDiv(SumSeq([i \in DOMAIN answers |-> IntOf(OverallOf(answers[i].score)).v]),
             Len(answers))

\* lines 584-673: the analysis built from a non-empty answer list
Analysis(answers) ==
    AnalysisRecord(answers, AvgScore(answers),
                   FieldAvg(answers, "technical"), FieldAvg(answers, "communication"),
                   FieldAvg(answers, "depth"), FieldAvg(answers, "resume_match"),
                   Top(SortedByCount(Tally(<<>>, answers, "strengths")), 5),
                   Top(SortedByCount(Tally(<<>>, answers, "weaknesses")), 8),
                   Top(SortedByCount(Tally(<<>>, answers, "tips")), 8))

\* --------------------------------------------------- start_interview, 319-429
\* the parsed resume (utils.parse_resume_text) of each resume file; "" when
\* the PDF cannot be read (lines 330-334: parsed = {"keywords": []})
Digest(file) ==
    CASE file = "cv_rich" ->
            [projects |-> <<"shop project", "chat project">>,
             skills |-> <<"python", "payments api", "sql">>,
             keywords |-> <<"backend", "latency">>]
      [] OTHER -> [projects |-> <<>>, skills |-> <<>>, keywords |-> <<>>]

Take(xs, n) == SubSeq(xs, 1, Min(n, Len(xs)))

RECURSIVE Flatten(_)
Flatten(xss) == IF xss = <<>> THEN <<>> ELSE Head(xss) \o Flatten(Tail(xss))

\* utils.generate_questions_from_parsed(parsed, max_questions)
generate_questions_from_parsed(parsed, max_questions) ==
    LET projs == Take(parsed.projects, 4)
        skills == Take(parsed.skills, 6)
        kws == Take(parsed.keywords, 4)
        questions ==
            Flatten([i \in DOMAIN projs |->
                        <<Q("project", 0, projs[i]), Q("design", 0, "")>>])
            \o [i \in DOMAIN skills |-> Q("skill", 0, skills[i])]
            \o [i \in DOMAIN kws |-> Q("keyword", 0, kws[i])]
            \o [i \in 1..8 |-> Q("common", i, "")]
    IN Take(questions, max_questions)

DedupeStep(init, x) ==
    IF \E i \in DOMAIN init : init[i] = x THEN init ELSE Append(init, x)

\* list(dict.fromkeys(xs)): first occurrences, in order
RECURSIVE Dedupe(_)
Dedupe(xs) ==
    IF xs = <<>> THEN <<>>
    ELSE DedupeStep(Dedupe(SubSeq(xs, 1, Len(xs) - 1)), xs[Len(xs)])

\* a string that came from the LLM as a question: the text of the bank's
\* first entry is that entry, any other text s is Q("llm", 0, s)
BankText == "What is encapsulation and why is it useful?"
QuestionOfText(s) == IF s = BankText THEN Q("bank", 1, "") ELSE Q("llm", 0, s)

\* an element of the LLM's question list as the routes hold it: a string is
\* the question of that text; anything else stays the JSON value
Item(j) == IF j.t = "str" THEN QuestionOfText(j.str) ELSE j
IsQuestion(x) == "kind" \in DOMAIN x

\* lines 344-355: the summary taken from the unwrapped reply, else default
SummaryFrom(unwrapped, default) ==
    IF Truthy(unwrapped) /\ IsDict(unwrapped)
    THEN IF "core_skills" \in DOMAIN unwrapped.dict \/ "projects" \in DOMAIN unwrapped.dict
         THEN unwrapped.dict
         ELSE IF "skills" \in DOMAIN unwrapped.dict /\ IsList(unwrapped.dict["skills"])
              THEN [default EXCEPT !.core_skills = unwrapped.dict["skills"]]
              ELSE default
    ELSE default

\* lines 337-358: the resume summary stored with the session
SummaryData(parsed, sumReply) ==
    SummaryFrom(_unwrap_llm_resp(generate_with_llm(sumReply)),
                [core_skills |-> JList([i \in DOMAIN parsed.skills |-> JStr(parsed.skills[i])]),
                 projects |-> JList(<<>>)])

AllStrings(v) == IsList(v) /\ \A i \in DOMAIN v.list : v.list[i].t = "str"

Items(list) == [i \in DOMAIN list |-> Item(list[i])]

\* lines 368-377: the questions taken from the unwrapped reply, <<>> when none
QuestionsFrom(q_unwrapped) ==
    IF ~Truthy(q_unwrapped) THEN <<>>
    ELSE IF IsDict(q_unwrapped) /\ "questions" \in DOMAIN q_unwrapped.dict
            /\ IsList(q_unwrapped.dict["questions"])
    THEN Items(q_unwrapped.dict["questions"].list)
    ELSE IF IsList(q_unwrapped)
    THEN [i \in DOMAIN q_unwrapped.list |-> QuestionOfText(PyStr(q_unwrapped.list[i]))]
    ELSE IF IsDict(q_unwrapped)
            /\ \E k \in DOMAIN q_unwrapped.dict : AllStrings(q_unwrapped.dict[k])
    THEN Items(q_unwrapped.dict[
             CHOOSE k \in DOMAIN q_unwrapped.dict : AllStrings(q_unwrapped.dict[k])].list)
    ELSE <<>>

\* lines 361-383
LLMQuestions(qReply) == QuestionsFrom(_unwrap_llm_resp(generate_with_llm(qReply)))

MIN_RESUME_QUESTIONS == 15
CS_SAMPLE == 10
BANK_SIZE == 119

COMBINED_CS_BANK == [i \in 1..BANK_SIZE |-> Q("bank", i, "")]

\* lines 386-388: the heuristic generator when the LLM gave nothing
FirstQuestions(parsed, fromLLM) ==
    IF fromLLM = <<>> THEN generate_questions_from_parsed(parsed, 8) ELSE fromLLM

\* lines 391-396: fewer than 15 are topped up and de-duplicated; raises is
\* TRUE when dict.fromkeys meets an unhashable (mapping or list) element
EnsureMinimum(parsed, questions) ==
    IF Len(questions) < MIN_RESUME_QUESTIONS
    THEN [raises |-> \E i \in DOMAIN questions :
                         ~IsQuestion(questions[i]) /\ ~Hashable(questions[i]),
          questions |-> Take(Dedupe(questions \o generate_questions_from_parsed(parsed, 30)),
                             MIN_RESUME_QUESTIONS)]
    ELSE [raises |-> FALSE, questions |-> questions]

\* lines 361-396: the resume-targeted portion
ResumeQuestions(parsed, qReply) ==
    EnsureMinimum(parsed, FirstQuestions(parsed, LLMQuestions(qReply)))

NotAmong(questions, q) == \A i \in DOMAIN questions : questions[i] # q

\* line 401: the bank without the texts already among the questions
CsBank(questions) ==
    LET NotUsed(q) == NotAmong(questions, q)
    IN SelectSeq(COMBINED_CS_BANK, NotUsed)

\* lines 402-410: random.sample(cs_bank, 10) as the 10 entries that follow
\* position offset (any 10 distinct entries can be drawn), or what is left
CsToAdd(cs_bank, offset) ==
    IF Len(cs_bank) >= CS_SAMPLE
    THEN SubSeq(cs_bank, offset + 1, offset + CS_SAMPLE)
    ELSE Take(cs_bank, CS_SAMPLE)

\* lines 414-420: every element reduced to a string
NormalizeQuestion(x) ==
    IF IsQuestion(x) THEN x
    ELSE IF x.t = "dict"
         THEN IF Truthy(DictGet(x.dict, "question", JNull))
              THEN QuestionOfText(PyStr(x.dict["question"]))
              ELSE Q("llm", 0, "<json.dumps>")
         ELSE QuestionOfText(PyStr(x))

NormalizeAll(final_questions) ==
    [i \in DOMAIN final_questions |-> NormalizeQuestion(final_questions[i])]

\* lines 398-420: the initial question sequence around the resume questions
InitialQuestions(questions, offset) ==
    NormalizeAll(questions \o CsToAdd(CsBank(questions), offset))

\* --------------------------------------------------------------- requests
Users == {"u1", "u2"}
NoResume == ""

Response(op, id, status, detail, body) ==
    [op |-> op, id |-> id, status |-> status, detail |-> detail, body |-> body]

Idle == [pc |-> "idle"]
Requests == {"r1", "r2"}

Init ==
    /\ users = [u \in Users |-> NoResume]
    /\ interviews = <<>>
    /\ LLM_FORCE_EVAL \in BOOLEAN
    /\ last = Response("none", 0, 0, "", JNull)
    /\ reqs = [r \in Requests |-> Idle]
    /\ _simple_cache = <<>>

\* user_routes.upload_resume: the stored path replaces the previous one
UploadResume(u, file) ==
    /\ users' = [users EXCEPT ![u] = file]
    /\ last' = Response("upload_resume", 0, 200, "", JNull)
    /\ UNCHANGED <<interviews, LLM_FORCE_EVAL, _simple_cache, reqs>>

\* models.Interview(user_id=...): the JSON columns start NULL
NewInterview(u) ==
    [user_id |-> u, questions_json |-> NullColumn, answers_json |-> NullColumn,
     analysis_json |-> NullColumn]

\* lines 422-429: the row created and the response
StartCreated(u, parsed, sumReply, questions) ==
    [status |-> 200, detail |-> "", created |-> TRUE,
     row |-> set_analysis(
                 set_answers(set_questions(NewInterview(u), questions), <<>>),
                 [resume_summary |-> SummaryData(parsed, sumReply),
                  resume_keywords |-> Take(parsed.keywords, 80)])]

StartBuilt(u, parsed, sumReply, built, offset) ==
    IF built.raises
    THEN [status |-> 500, detail |-> "Internal Server Error", created |-> FALSE,
          row |-> NewInterview(u)]
    ELSE StartCreated(u, parsed, sumReply, InitialQuestions(built.questions, offset))

StartParsed(u, parsed, sumReply, qReply, offset) ==
    StartBuilt(u, parsed, sumReply, ResumeQuestions(parsed, qReply), offset)

\* start_interview as the response and the row it creates
StartResult(u, resume_path, sumReply, qReply, offset) ==
    IF resume_path = NoResume
    THEN [status |-> 400, detail |-> "Upload resume first", created |-> FALSE,
          row |-> NewInterview(u)]
    ELSE StartParsed(u, Digest(resume_path), sumReply, qReply, offset)

FirstQuestion(questions) == IF questions = <<>> THEN JNull ELSE questions[1]

StartRespond(res, id) ==
    /\ interviews' = IF res.created THEN Append(interviews, res.row) ELSE interviews
    /\ last' = IF res.created
               THEN Response("start", id, 200, "",
                             [interview_id |-> id,
                              first_question |-> FirstQuestion(get_questions(res.row))])
               ELSE Response("start", 0, res.status, res.detail, JNull)

StartInterview(u, sumReply, qReply, offset) ==
    /\ StartRespond(StartResult(u, users[u], sumReply, qReply, offset),
                    Len(interviews) + 1)
    /\ UNCHANGED <<users, LLM_FORCE_EVAL, _simple_cache, reqs>>

\* crud.get_interview and the owner test every route makes first
Found(u, id) == id \in DOMAIN interviews /\ interviews[id].user_id = u
NotFound(op, id) == Response(op, id, 404, "Interview not found", JNull)

GetInterview(u, id) ==
    /\ last' = IF Found(u, id)
               THEN Response("get", id, 200, "",
                             [id |-> id,
                              questions |-> get_questions(interviews[id]),
                              answers |-> get_answers(interviews[id]),
                              analysis |-> get_analysis(interviews[id])])
               ELSE NotFound("get", id)
    /\ UNCHANGED <<users, interviews, LLM_FORCE_EVAL, _simple_cache, reqs>>

SimpleScore(score_obj) ==
    [score |-> score_obj["overall_score"], technical |-> score_obj["technical"],
     communication |-> score_obj["communication"], details |-> score_obj]

\* the follow-ups spliced in at the answered index instead of after it,
\* against which the question a record points at is tried
SubmitInsertAtIndex(answered, payload, score_obj, follow_ups) ==
    [status |-> 200, detail |-> "",
     row |-> set_questions(answered,
                 InsertFollowUps(get_questions(answered), payload.question_index,
                                 follow_ups)),
     body |-> SimpleScore(score_obj)]

\* lines 553-572: the follow-ups spliced into the row as it is after the
\* answer was saved, and the response
SubmitInsert(answered, payload, score_obj, follow_ups) ==
    [status |-> 200, detail |-> "",
     row |-> set_questions(answered,
                 InsertFollowUps(get_questions(answered), payload.question_index + 1,
                                 follow_ups)),
     body |-> SimpleScore(score_obj)]

\* lines 513-523: the answer appended and saved
SubmitStore(row, payload, qtext, score_obj, follow_ups) ==
    SubmitInsert(set_answers(row, AppendAnswer(get_answers(row), payload, qtext, score_obj)),
                 payload, score_obj, follow_ups)

SubmitOn(row, payload, qtext, force_eval, evalReply, fuReply) ==
    SubmitStore(row, payload, qtext,
                ScoreObj(force_eval, evalReply, AnswerText(payload),
                         payload.transcript_meta),
                FollowUps(qtext, fuReply))

InvalidIndex(payload, questions) ==
    payload.question_index < 0 \/ payload.question_index >= Len(questions)

\* the handler with only the upper test: a negative index counts from the
\* end of the list, as Python indexes, against which the rejection is tried
SubmitResultWrapping(row, payload, force_eval, evalReply, fuReply) ==
    IF payload.question_index >= Len(get_questions(row))
       \/ payload.question_index < -Len(get_questions(row))
    THEN [status |-> 400, detail |-> "Invalid question index", row |-> row,
          body |-> JNull]
    ELSE SubmitOn(row, payload,
                  get_questions(row)[IF payload.question_index < 0
                                     THEN Len(get_questions(row)) + payload.question_index + 1
                                     ELSE payload.question_index + 1],
                  force_eval, evalReply, fuReply)

\* submit_answer on the row it loaded, when no other request touches the row
SubmitResult(row, payload, force_eval, evalReply, fuReply) ==
    IF InvalidIndex(payload, get_questions(row))
    THEN [status |-> 400, detail |-> "Invalid question index", row |-> row,
          body |-> JNull]
    ELSE SubmitOn(row, payload, get_questions(row)[payload.question_index + 1],
                  force_eval, evalReply, fuReply)

\* the row saved and the response sent
Respond(op, id, res) ==
    /\ interviews' = [interviews EXCEPT ![id] = res.row]
    /\ last' = Response(op, id, res.status, res.detail, res.body)

SubmitAnswer(u, id, payload, evalReply, fuReply) ==
    /\ IF Found(u, id)
       THEN Respond("submit_answer", id,
                    SubmitResult(interviews[id], payload, LLM_FORCE_EVAL, evalReply,
                                 fuReply))
       ELSE /\ last' = NotFound("submit_answer", id)
            /\ UNCHANGED interviews
    /\ UNCHANGED <<users, LLM_FORCE_EVAL, _simple_cache, reqs>>

\* detailed_per_answer extended rather than replaced, against which the
\* repetition of finish is tried
FinishStoreExtending(row, analysis) ==
    [status |-> 200, detail |-> "",
     row |-> set_analysis(row,
                 [analysis EXCEPT !.detailed_per_answer =
                     DictGet(get_analysis(row), "detailed_per_answer", <<>>) \o @]),
     body |-> analysis]

\* the analysis written into the stored one, key by key, against which the
\* replacement of the stored analysis is tried
FinishStoreKeeping(row, analysis) ==
    [status |-> 200, detail |-> "",
     row |-> set_analysis(row,
                 [k \in DOMAIN analysis \cup DOMAIN get_analysis(row) |->
                     IF k \in DOMAIN analysis THEN analysis[k] ELSE get_analysis(row)[k]]),
     body |-> analysis]

\* lines 675-678: the analysis stored and returned
FinishStore(row, analysis) ==
    [status |-> 200, detail |-> "", row |-> set_analysis(row, analysis),
     body |-> analysis]

\* the handler without the test of lines 580-582: the division by
\* len(total_scores) = 0 raises, against which the empty-session check is tried
FinishOnUnguarded(row, answers) ==
    IF answers = <<>> \/ AggregationRaises(answers)
    THEN [status |-> 500, detail |-> "Internal Server Error", row |-> row,
          body |-> JNull]
    ELSE FinishStore(row, Analysis(answers))

\* lines 580-678 on the answers loaded
FinishOn(row, answers) ==
    IF answers = <<>>
    THEN [status |-> 400, detail |-> "No answers submitted", row |-> row,
          body |-> JNull]
    ELSE IF AggregationRaises(answers)
    THEN [status |-> 500, detail |-> "Internal Server Error", row |-> row,
          body |-> JNull]
    ELSE FinishStore(row, Analysis(answers))

\* finish_interview on the row it loaded
FinishResult(row) == FinishOn(row, get_answers(row))

FinishInterview(u, id) ==
    /\ IF Found(u, id)
       THEN Respond("finish", id, FinishResult(interviews[id]))
       ELSE /\ last' = NotFound("finish", id)
            /\ UNCHANGED interviews
    /\ UNCHANGED <<users, LLM_FORCE_EVAL, _simple_cache, reqs>>

\* ------------------------------------------------- inputs and specification
MaxInterviews == 1
MaxAnswers == 2

\* every numeric field malformed: negative, above 100, not a number, null,
\* missing; the lists null, a string, missing
OddScore ==
    [overall_score |-> JInt(-5), technical |-> JInt(150),
     communication |-> JStr("high"), depth |-> JNull, resume_bonus |-> JInt(55),
     strengths |-> JNull, weaknesses |-> JStr("ok")]

EvalReplies == {LLMContent(JText("fenced", JDict(OddScore)))}

FollowUpReplies ==
    {LLMFailure,
     LLMContent(JText("plain", JDict([follow_up |-> JStr("Which service owns the cache?")])))}

SummaryReplies == {LLMFailure}

QuestionReplies == {LLMFailure}

SampleOffsets == {0}

Spoken == JDict([text |-> JStr("rambling"), duration |-> JInt(20)])

Payload(i, a, tm) == [question_index |-> i, answer |-> a, transcript_meta |-> tm]

\* the indices tried against a sequence of n questions: below, first, last,
\* past the end
Indices(n) == {-1, 0, n - 1, n}

\* the candidate's answers: a strong one first, then a weak one, in turn
AnswerAfter(n) == IF n % 2 = 0 THEN "strong" ELSE "weak"

Payloads(row) ==
    {Payload(i, AnswerAfter(Len(get_answers(row))), JNull) :
        i \in Indices(Len(get_questions(row)))}

\* the users who upload a resume
Uploaders == {"u1"}

TotalAnswers == SumSeq([i \in DOMAIN interviews |-> Len(get_answers(interviews[i]))])

RowOrNew(u, id) == IF id \in DOMAIN interviews THEN interviews[id] ELSE NewInterview(u)

Next ==
    \/ \E u \in Uploaders, f \in {"cv_rich"} : UploadResume(u, f)
    \/ /\ Len(interviews) < MaxInterviews
       /\ \E u \in Users, sr \in SummaryReplies, qr \in QuestionReplies, o \in SampleOffsets :
            StartInterview(u, sr, qr, o)
    \/ \E u \in Users, id \in 1..(Len(interviews) + 1) : GetInterview(u, id)
    \/ /\ TotalAnswers < MaxAnswers
       /\ \E u \in Users, id \in 1..(Len(interviews) + 1) :
            \E p \in Payloads(RowOrNew(u, id)), er \in EvalReplies, fr \in FollowUpReplies :
                SubmitAnswer(u, id, p, er, fr)
    \/ \E u \in Users, id \in 1..(Len(interviews) + 1) : FinishInterview(u, id)

Spec == Init /\ [][Next]_vars

\* ------------------------------------------------ the scoring of one answer
MaxScored == 1

\* numbers as fractions, numeric strings and booleans; a list with an item
\* that is no string; a mapping where a list is expected
LooseScore ==
    [score |-> JFloat(725), technical |-> JText("plain", JInt(88)),
     communication |-> JBool(TRUE), depth |-> JFloat(-35),
     resume_match |-> JInt(100), resume_bonus |-> JStr("high"),
     strengths |-> JList(<<JStr("clear")>>), weaknesses |-> JList(<<JInt(3)>>),
     tips |-> JDict([first |-> JStr("slow down")])]

\* an evaluation of the shape the prompt asks for
GoodScore ==
    [overall_score |-> JInt(72), technical |-> JInt(80), communication |-> JInt(65),
     depth |-> JInt(70), resume_match |-> JInt(40), resume_bonus |-> JInt(4),
     strengths |-> JList(<<JStr("clear")>>), weaknesses |-> JList(<<>>),
     tips |-> JList(<<JStr("slow down")>>)]

\* an evaluation whose tips are mappings, not strings
NestedScore ==
    [overall_score |-> JInt(64), technical |-> JInt(70), communication |-> JInt(60),
     depth |-> JInt(55), resume_match |-> JInt(30),
     strengths |-> JList(<<JStr("clear")>>), weaknesses |-> JList(<<>>),
     tips |-> JList(<<JDict([tip |-> JStr("slow down")])>>)]

ScoringReplies ==
    {LLMFailure,
     LLMContent(JText("plain", JDict(NestedScore))),
     LLMContent(JStr("I cannot evaluate this.")),
     LLMContent(JText("plain", JDict(<<>>))),
     LLMContent(JText("fenced", JDict(OddScore))),
     LLMContent(JText("chatter", JDict(LooseScore))),
     LLMContent(JText("plain",
         JDict([choices |-> JList(<<JDict([message |->
             JDict([content |-> JText("plain", JDict(GoodScore))])])>>)])))}

ScoredPayloads ==
    {Payload(0, a, JNull) : a \in Texts}
    \cup {Payload(0, "strong", Spoken),
          Payload(0, "strong", JDict([duration |-> JInt(10)]))}

NextScoring ==
    \/ \E u \in Uploaders : UploadResume(u, "cv_rich")
    \/ /\ Len(interviews) < MaxInterviews
       /\ \E u \in Uploaders, sr \in SummaryReplies, qr \in QuestionReplies,
             o \in SampleOffsets :
            StartInterview(u, sr, qr, o)
    \/ /\ TotalAnswers < MaxScored
       /\ \E u \in Uploaders, id \in DOMAIN interviews :
            \E p \in ScoredPayloads, er \in ScoringReplies :
                SubmitAnswer(u, id, p, er, LLMFailure)
    \/ \E u \in Uploaders, id \in DOMAIN interviews : GetInterview(u, id)
    \/ \E u \in Uploaders, id \in DOMAIN interviews : FinishInterview(u, id)

SpecScoring == Init /\ [][NextScoring]_vars

\* the scores stored with the answers of all sessions
ScoresOf(answers) == {answers[a].score : a \in DOMAIN answers}

StoredScores == UNION {ScoresOf(get_answers(interviews[id])) : id \in DOMAIN interviews}

ScoreFields == {"overall_score", "technical", "communication", "depth", "resume_match"}

\* C1: in every stored answer the score's overall_score, technical,
\* communication, depth and resume_match are each present and an integer in
\* 0..100, whichever source the score came from and whatever the upstream
\* values were.
C1_ScoreFieldsBounded ==
    \A sc \in StoredScores : \A f \in ScoreFields :
        /\ f \in DOMAIN sc
        /\ sc[f].t = "int"
        /\ sc[f].int \in 0..100

\* an LLM evaluation with a negative, an over-100, a non-numeric, a null and
\* a missing field has been stored (its resume_bonus 55 marks it), clamped
C1_Witness ==
    /\ last.op = "submit_answer" /\ last.status = 200
    /\ \E sc \in StoredScores :
        /\ DictGet(sc, "resume_bonus", JNull) = JInt(55)
        /\ sc["overall_score"] = JInt(0) /\ sc["technical"] = JInt(100)
        /\ sc["communication"] = JInt(0) /\ sc["depth"] = JInt(0)
        /\ sc["resume_match"] = JInt(0)

\* C2: in every stored answer the score's resume_bonus is present and an
\* integer in 0..10, for heuristic and LLM scores alike.
C2_ResumeBonusBounded ==
    \A sc \in StoredScores :
        /\ "resume_bonus" \in DOMAIN sc
        /\ sc["resume_bonus"].t = "int"
        /\ sc["resume_bonus"].int \in 0..10

\* C3: in every stored answer the score's strengths, weaknesses and tips are
\* each a list whose items are all strings, never null.
C3_ListsOfStrings ==
    \A sc \in StoredScores : \A f \in {"strengths", "weaknesses", "tips"} :
        /\ f \in DOMAIN sc
        /\ IsList(sc[f])
        /\ \A i \in DOMAIN sc[f].list : IsStr(sc[f].list[i])

\* ---------------------------------------------- the session under one owner
RECURSIVE IsSubsequence(_, _)
IsSubsequence(a, b) ==
    IF a = <<>> THEN TRUE
    ELSE IF Len(a) > Len(b) THEN FALSE
    ELSE IF Head(a) = Head(b) THEN IsSubsequence(Tail(a), Tail(b))
    ELSE IsSubsequence(a, Tail(b))

IsPrefix(a, b) == Len(a) <= Len(b) /\ SubSeq(b, 1, Len(a)) = a

\* the step is a submit_answer on session id that answered 200
SubmitStep(id) ==
    last'.op = "submit_answer" /\ last'.status = 200 /\ last'.id = id

\* the step is a finish on session id by its owner
FinishStep(id) ==
    last'.op = "finish" /\ last'.id = id /\ last'.status # 404

GrowsOnly(old, new) == old = new \/ (Len(old) <= Len(new) /\ IsSubsequence(old, new))

\* C4: over every step of start, submit_answer, finish and get, the question
\* sequence of every session only grows: its length does not decrease and
\* the questions it held are all still there in the same relative order.
C4_QuestionsOnlyGrow ==
    [][\A id \in DOMAIN interviews :
          /\ id \in DOMAIN interviews'
          /\ GrowsOnly(get_questions(interviews[id]), get_questions(interviews'[id]))]_vars

\* a session answered twice at its first question: follow-ups were spliced
\* in twice between questions that were already there
C4_Witness ==
    \E id \in DOMAIN interviews :
        /\ Len(get_answers(interviews[id])) = 2
        /\ \A a \in 1..2 : get_answers(interviews[id])[a].question_index = 0
        /\ Len(get_questions(interviews[id])) > MIN_RESUME_QUESTIONS + CS_SAMPLE + 2

\* C5: when operations do not overlap the answer list is append-only: over
\* every step the answer list a session held is a prefix of the one it
\* holds after, record for record (question_index, question snapshot,
\* answer text, score).
C5_AnswersAppendOnly ==
    [][\A id \in DOMAIN interviews :
          /\ id \in DOMAIN interviews'
          /\ IsPrefix(get_answers(interviews[id]), get_answers(interviews'[id]))]_vars

\* a question index answered a second time with another text and the session
\* then finished: both records are there
C5_Witness ==
    /\ last.op = "finish" /\ last.status = 200
    /\ \E id \in DOMAIN interviews :
        /\ Len(get_answers(interviews[id])) = 2
        /\ get_answers(interviews[id])[1].question_index
              = get_answers(interviews[id])[2].question_index
        /\ get_answers(interviews[id])[1].answer # get_answers(interviews[id])[2].answer

\* C6: a submit_answer that succeeds leaves the question sequence longer by
\* 0, 1 or 2, whatever the follow-up reply of the LLM was.
C6_AtMostTwoInserted ==
    [][\A id \in DOMAIN interviews :
          SubmitStep(id) =>
              Len(get_questions(interviews'[id])) - Len(get_questions(interviews[id]))
                  \in 0..2]_vars

\* one submit_answer added the single follow-up of the LLM, another the two
\* synthesized ones
C6_Witness ==
    /\ last.op = "submit_answer" /\ last.status = 200
    /\ \E id \in DOMAIN interviews :
        /\ Len(get_answers(interviews[id])) = 2
        /\ Len(get_questions(interviews[id])) = MIN_RESUME_QUESTIONS + CS_SAMPLE + 3

\* the questions the follow-up step can produce for the question answered
PossibleFollowUps(qtext) ==
    {SubSeq(FollowUps(qtext, fr), 1, Min(2, Len(FollowUps(qtext, fr)))) :
        fr \in FollowUpReplies}

\* new is old with fus spliced in right after (0-based) position i
SplicedAfter(old, new, i, fus) ==
    /\ Len(new) = Len(old) + Len(fus)
    /\ SubSeq(new, 1, i + 1) = SubSeq(old, 1, i + 1)
    /\ SubSeq(new, i + 2, i + 1 + Len(fus)) = fus
    /\ SubSeq(new, i + 2 + Len(fus), Len(new)) = SubSeq(old, i + 2, Len(old))

SplicedByLast(old, new, answer) ==
    \E fus \in PossibleFollowUps(answer.question) :
        SplicedAfter(old, new, answer.question_index, fus)

\* short question lists, insertion points up to two past their end, and one
\* or two follow-ups, for the insertion loop taken by itself
LoopQuestions == {<<>>, <<Q("bank", 1, "")>>, <<Q("bank", 1, ""), Q("bank", 2, "")>>}
LoopFollowUps == {<<Q("fu_testing", 0, "")>>, Synthesized("service")}

AppendedPastEnd ==
    \A qs \in LoopQuestions, fus \in LoopFollowUps :
        \A insert_at \in Len(qs)..(Len(qs) + 2) :
            InsertFollowUps(qs, insert_at, fus) = qs \o fus

\* C7: a submit_answer on index i leaves its follow-ups at positions i+1
\* (and i+2), in the order they were generated, the questions at 0..i as
\* they were and the questions after i moved right by the number of
\* follow-ups, in their order; and the insertion loop appends the follow-ups
\* when the insertion point is at or past the end of the list.
C7_FollowUpsSplicedAfterAnswered ==
    [][/\ \A id \in DOMAIN interviews :
            SubmitStep(id) =>
                SplicedByLast(get_questions(interviews[id]),
                              get_questions(interviews'[id]),
                              get_answers(interviews'[id])[Len(get_answers(interviews'[id]))])
       /\ AppendedPastEnd]_vars

\* the first question was answered and the two synthesized follow-ups stand
\* at positions 1 and 2, before the question that was second
C7_Witness ==
    /\ last.op = "submit_answer" /\ last.status = 200
    /\ \E id \in DOMAIN interviews :
        /\ Len(get_answers(interviews[id])) = 1
        /\ get_answers(interviews[id])[1].question_index = 0
        /\ get_questions(interviews[id])[2].kind = "fu_design"
        /\ get_questions(interviews[id])[3].kind = "fu_testing"
        /\ get_questions(interviews[id])[4].kind \notin {"fu_design", "fu_testing"}
        /\ Len(get_questions(interviews[id])) = MIN_RESUME_QUESTIONS + CS_SAMPLE + 2

\* C9: finish by the owner of a session whose answer list is empty answers
\* 400 'No answers submitted' and changes nothing stored: analysis,
\* questions and answers are as they were.
C9_FinishWithoutAnswers ==
    [][\A id \in DOMAIN interviews :
          (FinishStep(id) /\ get_answers(interviews[id]) = <<>>) =>
              /\ last'.status = 400
              /\ last'.detail = "No answers submitted"
              /\ last'.body = JNull
              /\ interviews' = interviews]_vars

\* finish has answered 'No answers submitted' for a started session that
\* still holds its questions and the analysis start_interview stored
C9_Witness ==
    /\ last.op = "finish" /\ last.status = 400
    /\ last.detail = "No answers submitted"
    /\ last.id \in DOMAIN interviews
    /\ get_answers(interviews[last.id]) = <<>>
    /\ get_questions(interviews[last.id]) # <<>>
    /\ "resume_summary" \in DOMAIN get_analysis(interviews[last.id])

\* the stored analysis of a row is the one finish computes from its answers
Finished(row) ==
    /\ "detailed_per_answer" \in DOMAIN get_analysis(row)
    /\ get_analysis(row).detailed_per_answer = get_answers(row)

\* C10: finish is idempotent: every finish that succeeds returns the
\* analysis it leaves stored, and a finish on a session finished since its
\* last submit_answer returns that same analysis and leaves the session as
\* it was.
C10_FinishIdempotent ==
    [][\A id \in DOMAIN interviews :
          (FinishStep(id) /\ last'.status = 200) =>
              /\ last'.body = get_analysis(interviews'[id])
              /\ Finished(interviews[id]) =>
                    /\ interviews' = interviews
                    /\ last'.body = get_analysis(interviews[id])]_vars

\* a session with two answers has been finished: the response is the
\* stored analysis, computed from the answers it holds
C10_Witness ==
    /\ last.op = "finish" /\ last.status = 200
    /\ last.id \in DOMAIN interviews
    /\ Len(get_answers(interviews[last.id])) = 2
    /\ Finished(interviews[last.id])
    /\ last.body = get_analysis(interviews[last.id])

\* ------------------------------------------------- handlers that overlap
\* Each request runs in a worker thread with a database session of its own
\* (user_routes.get_db).  The row object a handler loads keeps the column
\* values it was loaded with; crud.save_interview commits the columns the
\* handler assigned and refreshes the object from the table.  The handler
\* holds no lock, and the LLM calls sit between its load and its saves.
NoneBegun == \A r \in Requests : reqs[r] = Idle

\* lines 448-511: the row loaded, the index validated, the answer scored
SubmitBegin(r, u, id, payload, evalReply, fuReply) ==
    /\ reqs[r] = Idle
    /\ Found(u, id)
    /\ ~InvalidIndex(payload, get_questions(interviews[id]))
    /\ reqs' = [reqs EXCEPT ![r] =
                  [pc |-> "scored", op |-> "submit_answer", id |-> id,
                   first |-> NoneBegun, loaded |-> interviews[id],
                   interview |-> interviews[id], payload |-> payload,
                   evalReply |-> evalReply, fuReply |-> fuReply,
                   qtext |-> get_questions(interviews[id])[payload.question_index + 1],
                   score_obj |-> ScoreObj(LLM_FORCE_EVAL, evalReply, AnswerText(payload),
                                          payload.transcript_meta)]]
    /\ UNCHANGED <<users, interviews, LLM_FORCE_EVAL, _simple_cache, last>>

\* the UPDATE of one column of row id
WriteAnswers(id, answers) ==
    interviews' = [interviews EXCEPT ![id] = set_answers(@, answers)]
WriteQuestions(id, questions) ==
    interviews' = [interviews EXCEPT ![id] = set_questions(@, questions)]
WriteAnalysis(id, analysis) ==
    interviews' = [interviews EXCEPT ![id] = set_analysis(@, analysis)]

\* lines 513-523: the record appended to the answers the handler holds,
\* the answers column committed, the object refreshed
SubmitSaveAnswers(r) ==
    /\ reqs[r].pc = "scored"
    /\ WriteAnswers(reqs[r].id,
                    AppendAnswer(get_answers(reqs[r].interview), reqs[r].payload,
                                 reqs[r].qtext, reqs[r].score_obj))
    /\ reqs' = [reqs EXCEPT ![r].pc = "saved",
                            ![r].interview = interviews'[reqs[r].id]]
    /\ UNCHANGED <<users, LLM_FORCE_EVAL, _simple_cache, last>>

\* lines 526-572: the follow-ups inserted into the questions the refreshed
\* object holds, the questions column committed, the response
SubmitSaveQuestions(r) ==
    /\ reqs[r].pc = "saved"
    /\ WriteQuestions(reqs[r].id,
                      InsertFollowUps(get_questions(reqs[r].interview),
                                      reqs[r].payload.question_index + 1,
                                      FollowUps(reqs[r].qtext, reqs[r].fuReply)))
    /\ reqs' = [reqs EXCEPT ![r].pc = "done"]
    /\ last' = Response("submit_answer", reqs[r].id, 200, "",
                        SimpleScore(reqs[r].score_obj))
    /\ UNCHANGED <<users, LLM_FORCE_EVAL, _simple_cache>>

\* lines 576-673: the row loaded and the analysis computed
FinishBegin(r, u, id) ==
    /\ reqs[r] = Idle
    /\ Found(u, id)
    /\ FinishResult(interviews[id]).status = 200
    /\ reqs' = [reqs EXCEPT ![r] =
                  [pc |-> "analysed", op |-> "finish", id |-> id,
                   first |-> NoneBegun, loaded |-> interviews[id],
                   analysis |-> FinishResult(interviews[id]).body]]
    /\ UNCHANGED <<users, interviews, LLM_FORCE_EVAL, _simple_cache, last>>

\* lines 675-678: the analysis column committed, the response
FinishSave(r) ==
    /\ reqs[r].pc = "analysed"
    /\ WriteAnalysis(reqs[r].id, reqs[r].analysis)
    /\ reqs' = [reqs EXCEPT ![r].pc = "done"]
    /\ last' = Response("finish", reqs[r].id, 200, "", reqs[r].analysis)
    /\ UNCHANGED <<users, LLM_FORCE_EVAL, _simple_cache>>

\* the requests that overlap: answers to the first and the last question
OverlapPayloads(row) ==
    {Payload(i, a, JNull) : i \in {0, Len(get_questions(row)) - 1}, a \in {"strong"}}

NextOverlap ==
    \/ /\ NoneBegun
       /\ \E u \in Uploaders : UploadResume(u, "cv_rich")
    \/ /\ NoneBegun
       /\ Len(interviews) < MaxInterviews
       /\ \E u \in Uploaders, sr \in SummaryReplies, qr \in QuestionReplies,
             o \in SampleOffsets :
            StartInterview(u, sr, qr, o)
    \/ /\ NoneBegun
       /\ TotalAnswers < MaxScored
       /\ \E u \in Uploaders, id \in DOMAIN interviews :
            \E p \in Payloads(interviews[id]), er \in EvalReplies :
                SubmitAnswer(u, id, p, er, LLMFailure)
    \/ \E r \in Requests, u \in Uploaders, id \in DOMAIN interviews :
         \E p \in OverlapPayloads(interviews[id]), er \in EvalReplies, fr \in FollowUpReplies :
            SubmitBegin(r, u, id, p, er, fr)
    \/ \E r \in Requests : SubmitSaveAnswers(r)
    \/ \E r \in Requests : SubmitSaveQuestions(r)
    \/ \E r \in Requests, u \in Uploaders, id \in DOMAIN interviews : FinishBegin(r, u, id)
    \/ \E r \in Requests : FinishSave(r)

SpecOverlap == Init /\ [][NextOverlap]_vars

\* the row a request leaves when it runs alone on row
Alone(req, row) ==
    IF req.op = "submit_answer"
    THEN SubmitResult(row, req.payload, LLM_FORCE_EVAL, req.evalReply, req.fuReply).row
    ELSE FinishResult(row).row

\* the row the requests began on: the one the first of them loaded
FirstBegun == CHOOSE r \in Requests : reqs[r].first

AllDone == \A r \in Requests : reqs[r].pc = "done"

SameSession == \A r \in Requests : reqs[r].id = reqs[FirstBegun].id

\* C8: when two mutating requests on one session have overlapped and both
\* are complete, the session is as some serial order of the two leaves it:
\* no answer record and no follow-up of either is lost.
C8_SerialOutcome ==
    (AllDone /\ SameSession) =>
        \E a \in Requests : \E b \in Requests \ {a} :
            interviews[reqs[a].id]
                = Alone(reqs[b], Alone(reqs[a], reqs[FirstBegun].loaded))

\* ------------------------------------------------------ rejected requests
LastAnswer(row) == get_answers(row)[Len(get_answers(row))]

\* C11: a submit_answer is accepted only for an index within the question
\* sequence the session holds; any other index is answered 400 'Invalid
\* question index' with questions, answers and analysis as they were.  A
\* start is accepted only for a user with an uploaded resume; otherwise it
\* is answered 400 'Upload resume first' and no session is created.
C11_InvalidRequestsRejected ==
    [][/\ \A id \in DOMAIN interviews :
            /\ SubmitStep(id) =>
                  LastAnswer(interviews'[id]).question_index
                      \in 0..(Len(get_questions(interviews[id])) - 1)
            /\ (last'.op = "submit_answer" /\ last'.id = id /\ last'.status = 400) =>
                  /\ last'.detail = "Invalid question index"
                  /\ interviews' = interviews
       /\ last'.op = "start" =>
            IF Len(interviews') > Len(interviews)
            THEN /\ last'.status = 200
                 /\ users[interviews'[Len(interviews')].user_id] # NoResume
            ELSE /\ last'.status = 400
                 /\ last'.detail = "Upload resume first"
                 /\ interviews' = interviews]_vars

\* an index out of range was rejected on a session that already holds an
\* answer and its follow-ups
C11_Witness ==
    /\ last.op = "submit_answer" /\ last.status = 400
    /\ last.detail = "Invalid question index"
    /\ last.id \in DOMAIN interviews
    /\ Len(get_answers(interviews[last.id])) = 1
    /\ Len(get_questions(interviews[last.id])) > MIN_RESUME_QUESTIONS + CS_SAMPLE

\* ------------------------------------------------- the LLM out of reach
\* every LLM call of every request fails, in each of the ways a call can
NextOutage ==
    \/ \E u \in Uploaders : UploadResume(u, "cv_rich")
    \/ /\ Len(interviews) < MaxInterviews
       /\ \E u \in Uploaders, sr \in LLMFailures, qr \in LLMFailures, o \in SampleOffsets :
            StartInterview(u, sr, qr, o)
    \/ \E u \in Uploaders, id \in DOMAIN interviews : GetInterview(u, id)
    \/ /\ TotalAnswers < MaxAnswers
       /\ \E u \in Uploaders, id \in DOMAIN interviews :
            \E p \in Payloads(interviews[id]), er \in LLMFailures, fr \in LLMFailures :
                SubmitAnswer(u, id, p, er, fr)
    \/ \E u \in Uploaders, id \in DOMAIN interviews : FinishInterview(u, id)

SpecOutage == Init /\ [][NextOutage]_vars

\* the result generate_with_llm gives for a failed call
ReportsFailure(r) ==
    /\ DOMAIN r = {"ok", "raw", "json", "error"}
    /\ r.ok = FALSE
    /\ r.json = JNull
    /\ r.error # ""

\* the questions start builds from the resume alone
FallbackQuestions(digest) ==
    Take(Dedupe(generate_questions_from_parsed(digest, 8)
                \o generate_questions_from_parsed(digest, 30)), MIN_RESUME_QUESTIONS)

\* the session was built and scored by the deterministic fallbacks
BuiltByFallback(row) ==
    /\ IsPrefix(FallbackQuestions(Digest(users[row.user_id])),
                SelectSeq(get_questions(row),
                          LAMBDA q : q.kind \notin {"fu_design", "fu_testing"}))
    /\ \A a \in DOMAIN get_answers(row) :
          "speech_meta" \in DOMAIN get_answers(row)[a].score
    /\ Cardinality({q \in DOMAIN get_questions(row) :
                       get_questions(row)[q].kind = "fu_design"})
          = Len(get_answers(row))

\* C12: for a timeout, a connection error, an HTTP status >= 400, an
\* unexpected format, a missing key or any other exception generate_with_llm
\* returns ok = false, json = none and an error text; and while every call
\* fails no request ends in an internal error: start builds the session from
\* the resume alone, submit_answer scores by the heuristic and inserts the
\* synthesized follow-ups.
C12_LLMFailureDegrades ==
    /\ \A f \in LLMFailures : ReportsFailure(generate_with_llm(f))
    /\ last.status # 500
    /\ \A id \in DOMAIN interviews : BuiltByFallback(interviews[id])

\* a session started and answered twice while every call failed
C12_Witness ==
    /\ last.op = "submit_answer" /\ last.status = 200
    /\ \E id \in DOMAIN interviews :
        /\ Len(get_answers(interviews[id])) = 2
        /\ Len(get_questions(interviews[id])) = MIN_RESUME_QUESTIONS + CS_SAMPLE + 4

\* ---------------------------------------------- start_interview's replies
\* the question prompt's replies: failure, prose, and JSON of several shapes
LLMTexts ==
    <<"How did you shard the orders table?", "Why Redis for the cart?",
      "How did you shard the orders table?", BankText,
      "What broke in production?", "How do you test payments?",
      "Which index sped up search?", "How is chat delivery ordered?",
      "What is your rollback plan?", "How do you rotate secrets?",
      "Why SQL over a document store?", "How do you trace a slow request?",
      "What would you rewrite?", "How do you size a queue?",
      "What did the load test show?", "How do you page on errors?">>

Strings(n) == JList([i \in 1..n |-> JStr(LLMTexts[i])])

AsMappings(n) == JList([i \in 1..n |-> JDict([question |-> JStr(LLMTexts[i])])])

Asked(v) == LLMContent(JText("plain", v))

StartReplies ==
    {LLMFailure,
     LLMContent(JStr("Sure! Here are some questions you could ask.")),
     Asked(JDict([note |-> JStr("no questions")])),
     Asked(JDict([items |-> Strings(5)])),
     Asked(Strings(3)),
     Asked(JDict([questions |-> Strings(4)])),
     Asked(JDict([questions |-> Strings(MIN_RESUME_QUESTIONS)])),
     Asked(JDict([questions |-> Strings(MIN_RESUME_QUESTIONS + 1)])),
     Asked(JDict([questions |-> AsMappings(3)])),
     Asked(JDict([questions |-> AsMappings(MIN_RESUME_QUESTIONS)]))}

ResumeFiles == {"cv_rich", "cv_bare"}

StartOffsets == {0, 7}

NextStart ==
    \/ \E u \in Uploaders, f \in ResumeFiles : UploadResume(u, f)
    \/ \E u \in Users, qr \in StartReplies, o \in StartOffsets :
          /\ Len(interviews) < MaxInterviews
          /\ StartInterview(u, LLMFailure, qr, o)
    \/ \E u \in Users, id \in 1..(Len(interviews) + 1) : GetInterview(u, id)
    \/ \E u \in Users, id \in 1..(Len(interviews) + 1) : FinishInterview(u, id)

SpecStart == Init /\ [][NextStart]_vars

\* C13: a start by a user who has uploaded a resume completes and creates
\* a session, whatever shape the LLM's question reply has.
C13_StartAlwaysCreates ==
    [][\A u \in Users, qr \in StartReplies, o \in StartOffsets :
           (StartInterview(u, LLMFailure, qr, o) /\ users[u] # NoResume)
           => /\ last'.status = 200
              /\ Len(interviews') = Len(interviews) + 1]_vars

\* C14: finish on a session that holds at least one answer always answers
\* with the analysis, whatever the stored scores hold in strengths,
\* weaknesses and tips.
C14_FinishAlwaysAnalyses ==
    [][\A id \in DOMAIN interviews :
          (FinishStep(id) /\ get_answers(interviews[id]) # <<>>) =>
              /\ last'.status = 200
              /\ Finished(interviews'[id])]_vars

\* the questions of a stored sequence that precede its fundamentals, the
\* CS_SAMPLE bank questions start appended last
ResumePortion(questions) == SubSeq(questions, 1, Len(questions) - CS_SAMPLE)
FundamentalsPortion(questions) ==
    SubSeq(questions, Len(questions) - CS_SAMPLE + 1, Len(questions))

\* C15: the sequence start stores holds at most 15 resume-targeted questions,
\* followed by the fundamentals questions, whatever the LLM returned.
C15_ResumePortionTruncated ==
    \A id \in DOMAIN interviews :
        /\ Len(ResumePortion(get_questions(interviews[id]))) <= MIN_RESUME_QUESTIONS
        /\ \A i \in DOMAIN FundamentalsPortion(get_questions(interviews[id])) :
               FundamentalsPortion(get_questions(interviews[id]))[i].kind = "bank"

NoTwoEqual(questions) ==
    \A i, j \in DOMAIN questions : i # j => questions[i] # questions[j]

\* C16: the question sequence start stores contains no two equal question
\* strings, for every resume and every reply of the LLM.
C16_NoDuplicateQuestions ==
    \A id \in DOMAIN interviews : NoTwoEqual(get_questions(interviews[id]))

\* C17: the fundamentals start appends are exactly 10 questions of the bank,
\* pairwise distinct, and none of them equals a resume-targeted question of
\* the same sequence (the bank always has 10 entries left here).
C17_FundamentalsFromBank ==
    \A id \in DOMAIN interviews :
        /\ Len(get_questions(interviews[id])) >= CS_SAMPLE
        /\ \A i \in DOMAIN FundamentalsPortion(get_questions(interviews[id])) :
             /\ FundamentalsPortion(get_questions(interviews[id]))[i].kind = "bank"
             /\ NotAmong(ResumePortion(get_questions(interviews[id])),
                         FundamentalsPortion(get_questions(interviews[id]))[i])
        /\ NoTwoEqual(FundamentalsPortion(get_questions(interviews[id])))

\* ------------------------------------------------ replies inside envelopes
InnerQuestions == JText("plain", JDict([questions |-> Strings(2)]))
InnerFollowUp == JText("fenced", JDict([follow_up |-> JStr("Which service owns the cache?")]))

Candidate(content) == JDict([message |-> JDict([content |-> content])])

EnvelopeReplies ==
    {Asked(JDict([questions |-> Strings(3),
                  message |-> JDict([content |-> InnerQuestions])])),
     Asked(JDict([expected_answer |-> JStr("a write-through cache"),
                  message |-> JDict([content |-> InnerQuestions])])),
     Asked(JDict([comparison |-> JStr("close"), response |-> InnerFollowUp])),
     Asked(JDict([choices |-> JList(<<Candidate(InnerQuestions)>>)])),
     Asked(JDict([choices |-> JList(<<Candidate(JStr("Sorry, no.")),
                                      Candidate(InnerFollowUp)>>)])),
     Asked(JDict([output |-> JDict([text |-> JText("plain", JInt(7))])])),
     Asked(JInt(42)),
     Asked(JStr("Which service owns the cache?")),
     LLMContent(JText("chatter", JInt(42))),
     LLMContent(JStr("I cannot answer that")),
     LLMContent(JText("fenced", JStr("Why is arr[i] the same as *(arr + i)?"))),
     LLMContent(JText("chatter", JList(<<JStr("Why Redis for the cart?")>>)))}

\* one session: what the normalizer returns does not depend on the others
NextEnvelope ==
    \/ \E u \in Uploaders : UploadResume(u, "cv_rich")
    \/ \E u \in Uploaders, qr \in EnvelopeReplies :
          /\ interviews = <<>>
          /\ StartInterview(u, LLMFailure, qr, 0)
    \/ \E u \in Uploaders, id \in DOMAIN interviews, fr \in EnvelopeReplies :
          /\ TotalAnswers < MaxScored
          /\ \E a \in {"strong", "weak"} :
                SubmitAnswer(u, id, Payload(0, a, JNull), LLMFailure, fr)
    \/ \E u \in Uploaders, id \in DOMAIN interviews : GetInterview(u, id)
    \/ \E u \in Uploaders, id \in DOMAIN interviews : FinishInterview(u, id)

SpecEnvelope == Init /\ [][NextEnvelope]_vars

\* the step is a start or a submit_answer that handed reply r to the LLM
\* normalizer
Normalized(r) ==
    \/ \E u \in Uploaders :
          users[u] # NoResume /\ StartInterview(u, LLMFailure, r, 0)
    \/ \E u \in Uploaders, id \in DOMAIN interviews, a \in {"strong", "weak"} :
          SubmitAnswer(u, id, Payload(0, a, JNull), LLMFailure, r)

ClaimedTerminalKeys ==
    {"questions", "follow_up", "core_skills", "projects", "expected_answer", "comparison"}

\* C18: whenever the parsed reply is a mapping that holds one of the keys
\* questions, follow_up, core_skills, projects, expected_answer, comparison,
\* the normalizer returns that mapping itself, nested envelope or not.
C18_TerminalKeysReturnedAsIs ==
    [][\A r \in EnvelopeReplies :
          (/\ Normalized(r)
           /\ IsDict(generate_with_llm(r).json)
           /\ DOMAIN generate_with_llm(r).json.dict \cap ClaimedTerminalKeys # {})
          => _unwrap_llm_resp(generate_with_llm(r)) = generate_with_llm(r).json]_vars

\* the JSON parsed from the textual content of one candidate, None when it
\* has none that parses
CandidateJson(c) ==
    IF IsDict(c) THEN FirstNonNull(ChoiceMessage(c), ChoiceText(c)) ELSE JNull

\* the JSON of the first candidate, in order, whose content parses
RECURSIVE FirstParsing(_)
FirstParsing(candidates) ==
    IF candidates = <<>> THEN JNull
    ELSE FirstNonNull(CandidateJson(Head(candidates)), FirstParsing(Tail(candidates)))

\* a provider-style envelope: a mapping whose only key is a list of candidates
IsCandidates(parsed) ==
    IsDict(parsed) /\ DOMAIN parsed.dict = {"choices"} /\ IsList(parsed.dict["choices"])

\* C19: for an envelope with a list of candidates the normalizer returns the
\* JSON of the first candidate, in order, whose content parses, also when
\* that candidate is not the first of the list.
C19_FirstParsingCandidate ==
    [][\A r \in EnvelopeReplies :
          (/\ Normalized(r)
           /\ IsCandidates(generate_with_llm(r).json)
           /\ FirstParsing(generate_with_llm(r).json.dict["choices"].list) # JNull)
          => _unwrap_llm_resp(generate_with_llm(r))
                 = FirstParsing(generate_with_llm(r).json.dict["choices"].list)]_vars

Structured(v) == v = JNull \/ IsDict(v) \/ IsList(v)

\* C20: the normalizer's value for every LLM call result is a mapping, a
\* sequence or no usable value (None), never a bare number or string.
C20_NormalizedIsStructured ==
    [][\A r \in EnvelopeReplies :
          Normalized(r) => Structured(_unwrap_llm_resp(generate_with_llm(r)))]_vars

\* C21: when the call result carries no parsed value, the normalizer returns
\* what the first successful step gives on the raw text: the exact parse,
\* the parse without fence markers, the parse of the {...} or [...] span;
\* and no usable value (None) when all three fail.
C21_RawTextParsedInSteps ==
    [][\A r \in EnvelopeReplies :
          (generate_with_llm(r).json = JNull /\ Normalized(r))
          => _unwrap_llm_resp(generate_with_llm(r))
                 = FirstNonNull(DirectParse(generate_with_llm(r).raw),
                       FirstNonNull(FenceParse(generate_with_llm(r).raw),
                                    SpanParse(generate_with_llm(r).raw)))]_vars

\* a follow-up reply without a parsed value, a fenced string literal holding
\* a bracket, came back from the second step and was spliced in after the
\* answered question
C21_Witness ==
    /\ last.op = "submit_answer" /\ last.status = 200
    /\ \E id \in DOMAIN interviews :
          /\ Len(get_answers(interviews[id])) = 1
          /\ get_questions(interviews[id])[2]
                 = Q("llm", 0, "Why is arr[i] the same as *(arr + i)?")

\* ------------------------------------------- one session scored heuristically
\* every LLM call fails: the scores come from score_answer_text and the
\* follow-ups are synthesized
Brisk == JDict([duration |-> JInt(2)])

HeuristicPayloads ==
    {Payload(i, "strong", JNull) : i \in {0, 1}}
    \cup {Payload(i, "weak", tm) : i \in {0, 1}, tm \in {JNull, Brisk}}

NextHeuristic ==
    \/ \E u \in Uploaders : UploadResume(u, "cv_rich")
    \/ \E u \in Uploaders :
          /\ interviews = <<>>
          /\ StartInterview(u, LLMFailure, LLMFailure, 0)
    \/ \E u \in Uploaders, id \in DOMAIN interviews, p \in HeuristicPayloads :
          /\ TotalAnswers < MaxAnswers
          /\ SubmitAnswer(u, id, p, LLMFailure, LLMFailure)
    \/ \E u \in Uploaders, id \in DOMAIN interviews : GetInterview(u, id)
    \/ \E u \in Uploaders, id \in DOMAIN interviews : FinishInterview(u, id)

SpecHeuristic == Init /\ [][NextHeuristic]_vars

SameInputs(x, y) ==
    /\ x.question = y.question
    /\ x.answer = y.answer
    /\ x.transcript_meta = y.transcript_meta

HeuristicScores == {sc \in StoredScores : "speech_meta" \in DOMAIN sc}

Has(list, s) == \E i \in DOMAIN list : list[i] = JStr(s)

StrengthTexts ==
    <<JStr("Good technical coverage"), JStr("Shows conceptual depth"),
      JStr("Clear communicator")>>
WeaknessTexts ==
    <<JStr("Weak technical details - expand on steps and algorithms"),
      JStr("Answer doesn't reference resume or project specifics"),
      JStr("Clarity and pacing issues")>>
TipTexts ==
    <<JStr("Describe the design choices and algorithmic complexity (Big-O)."),
      JStr("Link your answer to specific project tasks, numbers, or modules from your resume."),
      JStr("Speak slower, organize answers: Problem - Approach - Result.")>>

\* the entries of texts whose condition holds, in the order of texts
Selected(texts, conds) ==
    SelectSeq(texts, LAMBDA t : \E i \in DOMAIN texts : texts[i] = t /\ conds[i])

\* C23: in every heuristic score the technical-coverage strength is present
\* iff technical > 65, the depth strength iff depth > 60, the communicator
\* strength iff communication > 60; a weakness and its paired tip are present
\* iff technical < 40, iff resume_match < 30, iff communication < 30; each
\* list in that order.
C23_ListsFollowThresholds ==
    \A sc \in HeuristicScores :
        /\ sc["strengths"].list
             = Selected(StrengthTexts, <<sc["technical"].int > 65, sc["depth"].int > 60,
                                        sc["communication"].int > 60>>)
        /\ sc["weaknesses"].list
             = Selected(WeaknessTexts, <<sc["technical"].int < 40,
                                         sc["resume_match"].int < 30,
                                         sc["communication"].int < 30>>)
        /\ sc["tips"].list
             = Selected(TipTexts, <<sc["technical"].int < 40, sc["resume_match"].int < 30,
                                    sc["communication"].int < 30>>)

\* heuristic scores on both sides of the thresholds are stored: one at
\* depth 60 and resume_match 30 exactly, with two strengths and no weakness
C23_Witness ==
    \E sc \in HeuristicScores :
        /\ sc["depth"].int = 60 /\ sc["resume_match"].int = 30
        /\ sc["technical"].int > 65 /\ sc["communication"].int > 60
        /\ Len(sc["strengths"].list) = 2 /\ sc["weaknesses"].list = <<>>

\* ------------------------------------------------- one session and its analysis
StrengthPool ==
    <<"clear", "structured", "precise", "concise", "calm", "curious">>
WeaknessPool ==
    <<"no complexity", "no tests", "no numbers", "no tradeoffs", "no failure modes",
      "no monitoring", "no rollback", "no security", "no capacity plan">>
TipPool ==
    <<"state Big-O", "name the tests", "quote numbers", "compare options",
      "list failure modes", "add metrics", "plan rollback", "threat model",
      "estimate load">>

Strs(pool, from, to) == JList([i \in 1..(to - from + 1) |-> JStr(pool[from + i - 1])])

\* an evaluation with more strengths, weaknesses and tips than the analysis keeps
ManyScore ==
    [overall_score |-> JInt(55), technical |-> JInt(61), communication |-> JInt(48),
     depth |-> JInt(40), resume_match |-> JInt(75),
     strengths |-> Strs(StrengthPool, 1, 6), weaknesses |-> Strs(WeaknessPool, 1, 9),
     tips |-> Strs(TipPool, 1, 9)]

\* an evaluation that repeats the last entries of ManyScore
LateScore ==
    [overall_score |-> JInt(90), technical |-> JInt(84), communication |-> JInt(71),
     depth |-> JInt(66), resume_match |-> JInt(20),
     strengths |-> Strs(StrengthPool, 6, 6), weaknesses |-> Strs(WeaknessPool, 8, 9),
     tips |-> Strs(TipPool, 9, 9)]

\* an evaluation that reports its total under "score", with -1 for "not
\* evaluated", and no overall_score
SentinelScore ==
    [score |-> JInt(-1), technical |-> JInt(50), communication |-> JInt(50),
     depth |-> JInt(50), resume_match |-> JInt(50),
     strengths |-> JList(<<>>), weaknesses |-> JList(<<>>), tips |-> JList(<<>>)]

FinishReplies ==
    {LLMFailure, Asked(JDict(ManyScore)), Asked(JDict(LateScore)),
     Asked(JDict(SentinelScore))}

NextFinish ==
    \/ \E u \in Uploaders : UploadResume(u, "cv_rich")
    \/ \E u \in Uploaders :
          /\ interviews = <<>>
          /\ StartInterview(u, LLMFailure, LLMFailure, 0)
    \/ \E u \in Uploaders, id \in DOMAIN interviews, er \in FinishReplies :
          /\ TotalAnswers < MaxAnswers
          /\ SubmitAnswer(u, id, Payload(0, "weak", JNull), er, LLMFailure)
    \/ \E u \in Uploaders, id \in DOMAIN interviews : GetInterview(u, id)
    \/ \E u \in Uploaders, id \in DOMAIN interviews : FinishInterview(u, id)

SpecFinish == Init /\ [][NextFinish]_vars

\* the integer floor of the mean of a field over the records
FloorMean(answers, field) ==
    SumSeq([i \in DOMAIN answers |-> answers[i].score[field].int]) \div Len(answers)

\* C24: in the analysis finish stored, overall_score and the four category
\* averages are the floor of the mean of that field over the session's
\* records, and so integers in 0..100.
C24_AveragesAreFloorMeans ==
    \A id \in DOMAIN interviews :
        Finished(interviews[id]) =>
            /\ get_analysis(interviews[id]).overall_score
                 = FloorMean(get_answers(interviews[id]), "overall_score")
            /\ get_analysis(interviews[id]).overall_score \in 0..100
            /\ \A f \in NumericFields :
                  /\ get_analysis(interviews[id]).by_category[f \o "_avg"]
                       = FloorMean(get_answers(interviews[id]), f)
                  /\ get_analysis(interviews[id]).by_category[f \o "_avg"] \in 0..100

\* how often item stands in the field lists of the records
Frequency(answers, field, item) ==
    Cardinality({p \in (DOMAIN answers) \X (1..9) :
                    /\ p[2] \in DOMAIN answers[p[1]].score[field].list
                    /\ answers[p[1]].score[field].list[p[2]] = item})

NonIncreasing(answers, field, top) ==
    \A i, j \in DOMAIN top :
        i < j => Frequency(answers, field, top[i]) >= Frequency(answers, field, top[j])

\* C25: every analysis finish stored has at most 5 top_strengths, at most 8
\* top_weaknesses, at most 8 aggregated_tips, exactly 4 improvement_tips, one
\* actionable item per top-5 weakness, a 4-item study plan and the session's
\* answers as its detail list; strengths, weaknesses and tips are in order of
\* non-increasing frequency over the records.
C25_AnalysisShape ==
    \A id \in DOMAIN interviews :
        Finished(interviews[id]) =>
            /\ Len(get_analysis(interviews[id]).top_strengths) <= 5
            /\ Len(get_analysis(interviews[id]).top_weaknesses) <= 8
            /\ Len(get_analysis(interviews[id]).aggregated_tips) <= 8
            /\ Len(get_analysis(interviews[id]).improvement_tips) = 4
            /\ Len(get_analysis(interviews[id]).actionable_from_weaknesses)
                 = Min(5, Len(get_analysis(interviews[id]).top_weaknesses))
            /\ Len(get_analysis(interviews[id]).suggested_4_week_plan) = 4
            /\ get_analysis(interviews[id]).detailed_per_answer
                 = get_answers(interviews[id])
            /\ NonIncreasing(get_answers(interviews[id]), "strengths",
                             get_analysis(interviews[id]).top_strengths)
            /\ NonIncreasing(get_answers(interviews[id]), "weaknesses",
                             get_analysis(interviews[id]).top_weaknesses)
            /\ NonIncreasing(get_answers(interviews[id]), "tips",
                             get_analysis(interviews[id]).aggregated_tips)

\* a finished session of two answers whose records name 6 strengths and 9
\* weaknesses: 5 and 8 are kept, the one named twice first
C25_Witness ==
    \E id \in DOMAIN interviews :
        /\ Finished(interviews[id])
        /\ Len(get_answers(interviews[id])) = 2
        /\ Len(get_analysis(interviews[id]).top_strengths) = 5
        /\ get_analysis(interviews[id]).top_strengths[1] = JStr("curious")
        /\ Len(get_analysis(interviews[id]).top_weaknesses) = 8
        /\ Len(get_analysis(interviews[id]).actionable_from_weaknesses) = 5

\* ------------------------------------------- the cache of generate_with_llm
\* generate_with_llm keeps the raw text of every successful call under the
\* hash of model and prompt (use_cache defaults to True and no caller passes
\* it).  A prompt is named by a number; the cache is the sequence of its
\* entries in insertion order, which is the order a dict iterates in.
CACHE_LIMIT == 256
MaxPrompts == 260

Cached(cache, h) == \E i \in DOMAIN cache : cache[i].key = h

\* store.get(h) for a key that is there
CacheGet(cache, h) == cache[CHOOSE i \in DOMAIN cache : cache[i].key = h].raw

\* lines 155-159: the oldest entry dropped when the store holds more than
\* 256, then the new one stored
CachePut(cache, h, raw) ==
    Append(IF Len(cache) > CACHE_LIMIT THEN Tail(cache) ELSE cache,
           [key |-> h, raw |-> raw])

\* one call generate_with_llm(prompt) whose remote call would end as reply
GenerateWithLLM(h, reply) ==
    /\ IF Cached(_simple_cache, h)
       THEN /\ last' = Response("generate_with_llm", h, 0, "",
                                generate_with_llm(LLMContent(CacheGet(_simple_cache, h))))
            /\ UNCHANGED _simple_cache
       ELSE /\ last' = Response("generate_with_llm", h, 0, "", generate_with_llm(reply))
            /\ _simple_cache' = IF _call_openrouter_raw(reply).raised
                                THEN _simple_cache
                                ELSE CachePut(_simple_cache, h, _call_openrouter_raw(reply).raw)
    /\ UNCHANGED <<users, interviews, LLM_FORCE_EVAL, reqs>>

\* the prompts tried: a new one, the one cached first, the one cached last
Prompts ==
    IF _simple_cache = <<>> THEN {1}
    ELSE {_simple_cache[1].key, _simple_cache[Len(_simple_cache)].key,
          _simple_cache[Len(_simple_cache)].key + 1} \cap (1..MaxPrompts)

CacheReplies == {LLMFailure, Asked(JDict([follow_up |-> JStr("Which service owns the cache?")]))}

NextCache == \E h \in Prompts, reply \in CacheReplies : GenerateWithLLM(h, reply)

SpecCache == Init /\ [][NextCache]_vars

\* C26: after any sequence of generate_with_llm calls the cache holds at
\* most 256 entries.
C26_CacheBounded == Len(_simple_cache) <= 256

\* ------------------------------------------------ the follow-up that is chosen
\* what the follow-up call can come back with: a failed call, prose, a
\* mapping without follow_up, an empty and a null follow_up, a follow_up, a
\* follow_up that is a list, a string literal, the empty string literal, a
\* list
FollowUpCases ==
    {LLMFailure,
     LLMContent(JStr("I cannot answer that")),
     Asked(JDict([note |-> JStr("none")])),
     Asked(JDict([follow_up |-> JStr("")])),
     Asked(JDict([follow_up |-> JNull])),
     Asked(JDict([follow_up |-> JStr("Which service owns the cache?")])),
     Asked(JDict([follow_up |-> JList(<<JStr("Which service owns the cache?")>>)])),
     Asked(JStr("How did you index the orders table?")),
     Asked(JStr("")),
     Asked(JList(<<JStr("Which service owns the cache?")>>))}

\* the first question, and the last one, which comes from the bank
FollowUpPayloads(row) ==
    {Payload(i, "weak", JNull) : i \in {0, Len(get_questions(row)) - 1}}

NextFollowUp ==
    \/ \E u \in Uploaders : UploadResume(u, "cv_rich")
    \/ \E u \in Uploaders :
          /\ interviews = <<>>
          /\ StartInterview(u, LLMFailure, LLMFailure, 0)
    \/ \E u \in Uploaders, id \in DOMAIN interviews, fr \in FollowUpCases :
          /\ TotalAnswers < MaxAnswers
          /\ \E p \in FollowUpPayloads(interviews[id]) :
                SubmitAnswer(u, id, p, LLMFailure, fr)
    \/ \E u \in Uploaders, id \in DOMAIN interviews : GetInterview(u, id)
    \/ \E u \in Uploaders, id \in DOMAIN interviews : FinishInterview(u, id)

SpecFollowUp == Init /\ [][NextFollowUp]_vars

\* the text the LLM gave as its follow-up, "" when it gave none: the
\* follow_up field of a mapping, or a reply that is itself a string
YieldedText(v) ==
    IF IsDict(v)
    THEN IF "follow_up" \in DOMAIN v.dict /\ Truthy(v.dict["follow_up"])
         THEN PyStr(v.dict["follow_up"]) ELSE ""
    ELSE IF IsStr(v) THEN PyStr(v) ELSE ""

\* the follow-ups the rule names for a question and a reply
NamedFollowUps(q, v) ==
    IF YieldedText(v) # "" THEN <<Q("llm", 0, YieldedText(v))>>
    ELSE <<Q("fu_design", 0, IF KeyNoun(q) # "" THEN KeyNoun(q) ELSE "component"),
           Q("fu_testing", 0, "")>>

\* C27: a submit_answer whose follow-up call yields no usable follow-up
\* (failed, unparseable, no follow_up, empty follow_up) inserts exactly the
\* design-decision follow-up naming the key noun of the question (or
\* "component") and then the testing-strategy follow-up; one whose call
\* yields a follow-up inserts exactly that one.
C27_FollowUpChosen ==
    [][\A u \in Uploaders, id \in DOMAIN interviews, fr \in FollowUpCases :
        \A p \in FollowUpPayloads(interviews[id]) :
            (SubmitStep(id) /\ SubmitAnswer(u, id, p, LLMFailure, fr))
            => SplicedAfter(get_questions(interviews[id]),
                            get_questions(interviews'[id]), p.question_index,
                            NamedFollowUps(get_questions(interviews[id])[p.question_index + 1],
                                           _unwrap_llm_resp(generate_with_llm(fr))))]_vars

\* ------------------------------------------- the supply of unanswered questions
\* C28: every successful submit_answer inserts at least one follow-up and at
\* most two: over every step the length of a session's question list grows
\* by between one and two times the number of answer records the step
\* added, so len(questions) - len(answers) never decreases and
\* len(questions) stays between the initial length plus the number of
\* answers and the initial length plus twice that number; a session starts
\* with a question and no answer, so after every step it holds more
\* questions than answers and answering one question per step never
\* exhausts it.
C28_QuestionsOutpaceAnswers ==
    [][\A id \in DOMAIN interviews' :
          /\ Len(get_answers(interviews'[id])) < Len(get_questions(interviews'[id]))
          /\ IF id \in DOMAIN interviews
             THEN /\ Len(get_questions(interviews'[id])) - Len(get_answers(interviews'[id]))
                        >= Len(get_questions(interviews[id])) - Len(get_answers(interviews[id]))
                  /\ Len(get_questions(interviews'[id])) - Len(get_questions(interviews[id]))
                        \in (Len(get_answers(interviews'[id])) - Len(get_answers(interviews[id])))
                            .. 2 * (Len(get_answers(interviews'[id])) - Len(get_answers(interviews[id])))
                  /\ (SubmitStep(id) =>
                        Len(get_answers(interviews'[id])) = Len(get_answers(interviews[id])) + 1)
             ELSE Len(get_answers(interviews'[id])) = 0]_vars

\* a session answered twice, each time with the two synthesized follow-ups:
\* the most questions two answers can bring
C28_Witness ==
    \E id \in DOMAIN interviews :
        /\ last.op = "submit_answer" /\ last.status = 200
        /\ Len(get_answers(interviews[id])) = 2
        /\ Len(get_questions(interviews[id])) = MIN_RESUME_QUESTIONS + CS_SAMPLE + 4

\* ------------------------------------------- the question a record points at
\* no record after the k-th names an index smaller than the k-th does
NotUndercut(answers, k) ==
    \A m \in DOMAIN answers : m > k => answers[m].question_index >= answers[k].question_index

ResumeSummaryRead(row) == DictGet(get_analysis(row), "resume_summary", EmptyDict)

\* a finish has stored its analysis in the row
Analysed(row) == "detailed_per_answer" \in DOMAIN get_analysis(row)

\* C30: a finish step changes nothing but the analysis of its session:
\* questions, answers, the other sessions and the users stay as they were;
\* the analysis it stores holds neither resume_summary nor resume_keywords,
\* so a submit_answer on a finished session reads an empty resume summary;
\* and no submit_answer step changes the stored analysis.
C30_FinishReplacesAnalysis ==
    [][\A id \in DOMAIN interviews :
          /\ FinishStep(id) =>
                /\ users' = users
                /\ interviews' = [interviews EXCEPT ![id].analysis_json =
                                      interviews'[id].analysis_json]
                /\ last'.status = 200 =>
                      /\ "resume_summary" \notin DOMAIN get_analysis(interviews'[id])
                      /\ "resume_keywords" \notin DOMAIN get_analysis(interviews'[id])
                      /\ ResumeSummaryRead(interviews'[id]) = EmptyDict
          /\ (last'.op = "submit_answer" /\ last'.id = id) =>
                /\ interviews'[id].analysis_json = interviews[id].analysis_json
                /\ Analysed(interviews[id]) => ResumeSummaryRead(interviews[id]) = EmptyDict]_vars

\* an answer submitted to a session that was finished before: the analysis
\* of the one earlier answer is still the stored one, without the summary
C30_Witness ==
    /\ last.op = "submit_answer" /\ last.status = 200
    /\ last.id \in DOMAIN interviews
    /\ Len(get_answers(interviews[last.id])) = 2
    /\ Analysed(interviews[last.id])
    /\ Len(get_analysis(interviews[last.id]).detailed_per_answer) = 1
    /\ "resume_summary" \notin DOMAIN get_analysis(interviews[last.id])

====
